CONSTANTS
  Block <- MCBlock
  Parent <- MCParent
  Height <- MCHeight
  EventsOf <- MCEventsOf
  Zonefile = {"z0", "z1"}
  NoZonefile = "nozf"
  TxtOf <- MCTxtOf
  NoOwner = "nobody"
  UriOf <- MCUriOf
  Message <- MCMessage
  MaxPosts = 1
  MaxReads = 1
SPECIFICATION TablesSpec
PROPERTY ForkInvisible
