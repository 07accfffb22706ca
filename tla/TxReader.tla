------------------------------ MODULE TxReader ------------------------------
(***************************************************************************)
(* readTransaction of p2p/tx.ts: the bytes of a transaction are read field  *)
(* by field, and what was read decides which fields follow.  The input is   *)
(* a sequence of fields, each with its meaning, its width in bytes and its  *)
(* value; the reader sees width and value only and gives every field the    *)
(* meaning of the place it is read at.  The raw post conditions and         *)
(* function arguments are kept, stored, and read again for the API.         *)
(***************************************************************************)
EXTENDS Naturals, Sequences, SequencesExt

CONSTANTS Txs      \* the transactions that are read

VARIABLES
  stream,          \* the input
  fault,           \* "cut" once it ends early, "code" once it holds an unknown code
  phase,           \* what is read: the transaction, or one of its raw parts again
  pc,              \* "reading", "done" or "failed"
  todo,            \* the fields still to read
  out,             \* the meanings given to what was read
  marks,           \* where the raw parts start
  raw              \* the raw parts, as stored

vars == <<stream, fault, phase, pc, todo, out, marks, raw>>

-----------------------------------------------------------------------------
(* The codes, by their names in the source.                                 *)
Single == {0, 2}
SigHashMode == Single \cup {1, 3}
PublicKeyField == {0, 1}
TransactionAuthFieldTypeID == PublicKeyField \cup {2, 3}
TransactionAuthTypeID == {4, 5}
TransactionAnchorMode == 1..3
TransactionPostConditionMode == 1..2
TransactionVersion == {0, 128}
AssetInfoTypeID == 0..2
PostConditionPrincipalTypeID == 1..3
RecipientPrincipalTypeId == {5, 6}
FungibleConditionCode == 1..5
NonfungibleConditionCode == {16, 17}
TransactionPayloadTypeID == 0..4
Unknown == 99

(* The fields that are read with readUInt8Enum, or compared with codes.     *)
Coded == {"version", "authType", "hashMode", "authFieldType", "anchorMode", "mode", "assetInfo", "principalType",
          "fungibleCode", "nonfungibleCode", "payloadType", "recipientType"}

Known(f, v) ==
  CASE f = "version" -> v \in TransactionVersion
    [] f = "authType" -> v \in TransactionAuthTypeID
    [] f = "hashMode" -> v \in SigHashMode
    [] f = "authFieldType" -> v \in TransactionAuthFieldTypeID
    [] f = "anchorMode" -> v \in TransactionAnchorMode
    [] f = "mode" -> v \in TransactionPostConditionMode
    [] f = "assetInfo" -> v \in AssetInfoTypeID
    [] f = "principalType" -> v \in PostConditionPrincipalTypeID
    [] f = "fungibleCode" -> v \in FungibleConditionCode
    [] f = "nonfungibleCode" -> v \in NonfungibleConditionCode
    [] f = "payloadType" -> v \in TransactionPayloadTypeID
    [] f = "recipientType" -> v \in RecipientPrincipalTypeId
    [] OTHER -> TRUE

-----------------------------------------------------------------------------
(* What is read where: a field with its width; kind "int" for the readUInt  *)
(* calls, "bytes" for readBuffer and readString, "clarity" for              *)
(* deserializeCV, which finds the end of its value by itself.               *)
UInt(f, w) == <<[f |-> f, w |-> w, kind |-> "int"]>>
Bytes(f, w) == <<[f |-> f, w |-> w, kind |-> "bytes"]>>
Clarity(f) == <<[f |-> f, w |-> 0, kind |-> "clarity"]>>
Times(n, fields) == FlattenSeq([i \in 1..n |-> fields])
MICROBLOCK_HEADER_SIZE == 1 + 2 + 32 + 32 + 65

readStacksAddress == UInt("addressVersion", 1) \o Bytes("address", 20)
readContractName == UInt("contractNameLength", 1)
readClarityName == UInt("clarityNameLength", 1)
readString == UInt("stringLength", 4)
readAssetInfo == readStacksAddress \o readContractName \o readClarityName
readTransactionPostConditions == UInt("conditionCount", 4)
readTransactionPostConditionPrincipal == UInt("principalType", 1)
readTransactionSpendingCondition == UInt("hashMode", 1)
readTransactionPayload == UInt("payloadType", 1)
readClarityValueArray == UInt("argCount", 4)

readTransaction ==
  UInt("version", 1) \o UInt("chainId", 4) \o UInt("authType", 1) \o UInt("anchorMode", 1) \o UInt("mode", 1)
    \o readTransactionPostConditions \o readTransactionPayload

SpendingCondition(hashMode) ==
  Bytes("signer", 20) \o UInt("nonce", 8) \o UInt("feeRate", 8)
    \o IF hashMode \in Single THEN UInt("keyEncoding", 1) \o Bytes("signature", 65)
       ELSE UInt("authFieldCount", 4) \o UInt("signatureCount", 2)

PostCondition(assetInfo) ==
  readTransactionPostConditionPrincipal
    \o (IF assetInfo = 0 THEN <<>> ELSE readAssetInfo)
    \o (IF assetInfo = 2 THEN Clarity("assetValue") \o UInt("nonfungibleCode", 1)
        ELSE UInt("fungibleCode", 1) \o UInt("conditionAmount", 8))

Payload(payloadType) ==
  CASE payloadType = 4 -> Bytes("coinbase", 32)
    [] payloadType = 0 -> UInt("recipientType", 1) \o UInt("amount", 8) \o Bytes("memo", 34)
    [] payloadType = 1 -> readContractName \o readString
    [] payloadType = 2 -> readStacksAddress \o readContractName \o readClarityName \o readClarityValueArray
    [] payloadType = 3 -> Times(2, Bytes("microblockHeader", MICROBLOCK_HEADER_SIZE))

(* What the value v of field f adds in front of the fields still to read.   *)
Then(f, v) ==
  CASE f = "authType" -> Times(v - 3, readTransactionSpendingCondition)
    [] f = "hashMode" -> SpendingCondition(v)
    [] f = "authFieldCount" -> Times(v, UInt("authFieldType", 1))
    [] f = "authFieldType" -> IF v \in PublicKeyField THEN Bytes("publicKey", 33) ELSE Bytes("fieldSignature", 65)
    [] f = "conditionCount" -> Times(v, UInt("assetInfo", 1))
    [] f = "assetInfo" -> PostCondition(v)
    [] f = "principalType" ->
         (IF v = 1 THEN <<>> ELSE readStacksAddress) \o (IF v = 3 THEN readContractName ELSE <<>>)
    [] f = "payloadType" -> Payload(v)
    [] f = "recipientType" -> readStacksAddress \o (IF v = 6 THEN readContractName ELSE <<>>)
    [] f = "contractNameLength" -> Bytes("contractName", v)
    [] f = "clarityNameLength" -> Bytes("clarityName", v)
    [] f = "stringLength" -> Bytes("string", v)
    [] f = "argCount" -> Times(v, Clarity("arg"))
    [] OTHER -> <<>>

-----------------------------------------------------------------------------
(* The node's serialisation of a transaction (external).                    *)
Field(f, w, v) == <<[f |-> f, w |-> w, v |-> v]>>
Opaque(f, w) == Field(f, w, 0)
Name(f, g, n) == Field(f, 1, n) \o Opaque(g, n)
Address == Opaque("addressVersion", 1) \o Opaque("address", 20)
Contract == Address \o Name("contractNameLength", "contractName", 3)

EncodeCondition(c) ==
  Field("hashMode", 1, c.hash) \o Opaque("signer", 20) \o Opaque("nonce", 8) \o Opaque("feeRate", 8)
    \o IF c.hash \in Single THEN Opaque("keyEncoding", 1) \o Opaque("signature", 65)
       ELSE Field("authFieldCount", 4, Len(c.fields))
              \o FlattenSeq([i \in DOMAIN c.fields |->
                   Field("authFieldType", 1, c.fields[i])
                     \o IF c.fields[i] \in PublicKeyField THEN Opaque("publicKey", 33)
                        ELSE Opaque("fieldSignature", 65)])
              \o Opaque("signatureCount", 2)

EncodePostCondition(p) ==
  Field("assetInfo", 1, p.asset) \o Field("principalType", 1, p.principal)
    \o (CASE p.principal = 1 -> <<>> [] p.principal = 2 -> Address [] p.principal = 3 -> Contract)
    \o (IF p.asset = 0 THEN <<>> ELSE Contract \o Name("clarityNameLength", "clarityName", 4))
    \o (IF p.asset = 2 THEN Opaque("assetValue", 0) \o Field("nonfungibleCode", 1, 16)
        ELSE Field("fungibleCode", 1, 5) \o Opaque("conditionAmount", 8))

EncodePayload(p) ==
  Field("payloadType", 1, p.type)
    \o CASE p.type = 4 -> Opaque("coinbase", 32)
         [] p.type = 0 -> Field("recipientType", 1, p.recipient) \o (IF p.recipient = 6 THEN Contract ELSE Address)
                            \o Opaque("amount", 8) \o Opaque("memo", 34)
         [] p.type = 1 -> Name("contractNameLength", "contractName", 3) \o Field("stringLength", 4, 9) \o Opaque("string", 9)
         [] p.type = 2 -> Contract \o Name("clarityNameLength", "clarityName", 4) \o Field("argCount", 4, p.args)
                            \o FlattenSeq([i \in 1..p.args |-> Opaque("arg", 0)])
         [] p.type = 3 -> Times(2, Opaque("microblockHeader", 132))

Encode(tx) ==
  Field("version", 1, 128) \o Opaque("chainId", 4) \o Field("authType", 1, 3 + Len(tx.auth))
    \o FlattenSeq([i \in DOMAIN tx.auth |-> EncodeCondition(tx.auth[i])])
    \o Field("anchorMode", 1, 3) \o Field("mode", 1, 2) \o Field("conditionCount", 4, Len(tx.conditions))
    \o FlattenSeq([i \in DOMAIN tx.conditions |-> EncodePostCondition(tx.conditions[i])])
    \o EncodePayload(tx.payload)

-----------------------------------------------------------------------------
NoRaw == [post |-> <<>>, args |-> <<>>]

Init ==
  /\ \E tx \in Txs : stream = Encode(tx)
  /\ fault = "none" /\ phase = "tx" /\ pc = "reading" /\ todo = readTransaction
  /\ out = <<>> /\ marks = [post |-> 0, args |-> 0] /\ raw = NoRaw

pos == Len(out) + 1
Goal == Head(todo)
Reading == pc = "reading" /\ todo # <<>>
Reached == Reading /\ pos <= Len(stream)
Part(from) == SubSeq(stream, from, pos - 1)

(* Mutant: the post conditions are kept from behind their mode.             *)
KeepBehindMode ==
  /\ marks' = [marks EXCEPT !.post = IF phase = "tx" /\ Goal.f = "conditionCount" THEN pos ELSE @,
                            !.args = IF phase = "tx" /\ Goal.f = "argCount" THEN pos ELSE @]
  /\ raw' = IF phase = "tx" /\ Goal.f = "payloadType" THEN [raw EXCEPT !.post = Part(marks.post)] ELSE raw

(* The raw post conditions are the bytes from their mode to the payload.    *)
Keep ==
  /\ marks' = [marks EXCEPT !.post = IF phase = "tx" /\ Goal.f = "mode" THEN pos ELSE @,
                            !.args = IF phase = "tx" /\ Goal.f = "argCount" THEN pos ELSE @]
  /\ raw' = IF phase = "tx" /\ Goal.f = "payloadType" THEN [raw EXCEPT !.post = Part(marks.post)] ELSE raw

ReadField ==
  /\ Reached
  /\ IF Known(Goal.f, stream[pos].v)
     THEN /\ out' = Append(out, [f |-> Goal.f, w |-> Goal.w, v |-> stream[pos].v])
          /\ todo' = Then(Goal.f, stream[pos].v) \o Tail(todo)
          /\ Keep /\ UNCHANGED pc
     ELSE pc' = "failed" /\ UNCHANGED <<out, todo, marks, raw>>
  /\ UNCHANGED <<stream, fault, phase>>

(* Behind the end of the input an integer throws; a buffer or a string may  *)
(* throw or come back short (external: smart-buffer).                       *)
ReadPastEnd ==
  /\ Reading /\ pos > Len(stream)
  /\ \/ pc' = "failed" /\ UNCHANGED todo
     \/ Goal.kind = "bytes" /\ todo' = Tail(todo) /\ UNCHANGED pc
  /\ UNCHANGED <<stream, fault, phase, out, marks, raw>>

(* All is read.  Empty function arguments are not kept.                     *)
Finish ==
  /\ pc = "reading" /\ todo = <<>>
  /\ pc' = "done"
  /\ raw' = IF phase = "tx" /\ marks.args > 0 /\ Len(Part(marks.args)) > 1
            THEN [raw EXCEPT !.args = Part(marks.args)] ELSE raw
  /\ UNCHANGED <<stream, fault, phase, todo, out, marks>>

Again(p, bytes, fields) ==
  /\ phase' = p /\ stream' = bytes /\ todo' = fields /\ out' = <<>> /\ pc' = "reading"
  /\ UNCHANGED <<fault, marks, raw>>

IsOf(types) == \E i \in DOMAIN out : out[i].f = "payloadType" /\ out[i].v \in types

(* The API reads the stored post conditions of contracts and contract       *)
(* calls without their first byte, then the function arguments.             *)
RereadPostConditions ==
  /\ pc = "done" /\ phase = "tx" /\ IsOf({1, 2})
  /\ Again("post", Tail(raw.post), readTransactionPostConditions)

RereadFunctionArgs ==
  /\ pc = "done" /\ phase = "post" /\ raw.args # <<>>
  /\ Again("args", raw.args, readClarityValueArray)

(* What comes next is cut off, or holds a code nobody knows.                *)
EndsHere ==
  /\ Reached /\ phase = "tx" /\ fault = "none"
  /\ stream' = Part(1) /\ fault' = "cut"
  /\ UNCHANGED <<phase, pc, todo, out, marks, raw>>

UnknownHere ==
  /\ Reached /\ phase = "tx" /\ fault = "none" /\ stream[pos].f \in Coded
  /\ stream' = [stream EXCEPT ![pos].v = Unknown] /\ fault' = "code"
  /\ UNCHANGED <<phase, pc, todo, out, marks, raw>>

Read ==
  ReadField \/ ReadPastEnd \/ Finish \/ RereadPostConditions \/ RereadFunctionArgs

Next == Read \/ EndsHere \/ UnknownHere

Spec == Init /\ [][Next]_vars /\ WF_vars(Read)

-----------------------------------------------------------------------------
(* TypeOK: the reader is in one of its phases, never past the input.        *)
TypeOK ==
  /\ phase \in {"tx", "post", "args"}
  /\ pc \in {"reading", "done", "failed"}
  /\ fault \in {"none", "cut", "code"}
  /\ pos <= Len(stream) + 1

(* Every field is read with the meaning and the width it was written with,  *)
(* in the first reading and in the readings of the stored parts; a          *)
(* transaction as the node writes it is never refused.                      *)
MeaningKept ==
  /\ \A i \in DOMAIN out : out[i] = stream[i]
  /\ fault = "none" => pc # "failed"

(* Nothing is left over: the input ends with the last field.                *)
WholeInputRead == pc = "done" /\ fault # "cut" => Len(out) = Len(stream)

(* A transaction with a code nobody knows is not read as something else.    *)
UnknownRefused == fault = "code" => pc # "done"

(* A transaction that was cut off is taken for whole only where its last    *)
(* bytes are a memo, a code body, a header or a coinbase: never a contract  *)
(* call, and never a transfer without its amount.                           *)
CutOnlyInBytes ==
  fault = "cut" /\ pc = "done" /\ phase = "tx" =>
    \E i \in DOMAIN out :
      /\ out[i].f = "payloadType" /\ out[i].v # 2
      /\ out[i].v = 0 => \E j \in DOMAIN out : out[j].f = "amount"

(* Reading a transaction comes to an end.                                   *)
ReadingEnds == (pc = "reading") ~> (pc # "reading")
=============================================================================
