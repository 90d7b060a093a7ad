\* Every ALE command may fail and two table entries serve three VLANs.
CONSTANTS
  v1024 = v1024  sw = sw  v5 = v5  v6 = v6  Host = Host  Free = Free  NoEntry = NoEntry
  MacPort = {1, 3}
  SwitchPort = {25, 26}
  SwitchMac = {sw}
  VlanId = {v1024, v5, v6}
  StaticVlan = {v1024}
  StaticMember <- MCStaticMember
  StaticAle <- MCStaticAle
  DefaultVirt <- MCDefaultVirt
  DefaultAle <- MCDefaultAle
  SwtFwd = TRUE
  MaxVlans = 2
SPECIFICATION Spec
INVARIANTS VlanInv QuietVlans ToldIsActive
