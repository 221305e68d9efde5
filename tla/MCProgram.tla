----------------------------- MODULE MCProgram -----------------------------
(***************************************************************************)
(* Two processes at a time, and the files a user may come up with: rules   *)
(* between two directories and with Drive, scheduled or not, credentials   *)
(* missing, a name that is not there, a name that is there twice.          *)
(***************************************************************************)
EXTENDS Program, TLC

Transport(name, type, creds) == [name |-> name, type |-> type, creds |-> creds]
EndpointIn(name, transport) == [name |-> name, transport |-> transport, root |-> "/root"]
RuleFor(name, source, target, enabled, schedule) ==
  [name |-> name, source |-> source, target |-> target, mode |-> "two-way",
   conflict |-> Blank, enabled |-> enabled, schedule |-> schedule]

Local == Transport("disk", "local", FALSE)
Drive(creds) == Transport("drive", "gdrive", creds)
Home == EndpointIn("home", "disk")
Cloud == EndpointIn("cloud", "drive")
Usb == EndpointIn("usb", "disk")

File(transports, endpoints, rules) ==
  [transports |-> transports, endpoints |-> endpoints, rules |-> rules, interval |-> "5m"]

MCFiles ==
  {File(<<Local, Drive(TRUE)>>, <<Home, Cloud, Usb>>,
        <<RuleFor("backup", "home", "cloud", "unset", "none"),
          RuleFor("copy", "usb", "home", "true", "off")>>),
   File(<<Local, Drive(FALSE)>>, <<Home, Cloud, Usb>>,
        <<RuleFor("off", "home", "usb", "false", "on"),
          RuleFor("copy", "usb", "home", "unset", "on"),
          RuleFor("backup", "home", "cloud", "true", "none")>>)}
  \cup
  {File(transports, <<Home, Cloud>>, <<RuleFor("backup", "home", "cloud", "unset", rule)>>) :
     transports \in {<<Local>>, <<Local, Local, Drive(TRUE)>>, <<>>}, rule \in {"none", "bad"}}
  \cup
  {File(<<Local>>, <<Home, Usb>>,
        <<RuleFor("copy", "home", "usb", "unset", "none"),
          RuleFor("copy", "usb", "home", "unset", "none")>>)}

MCJobs == <<{"daemon", "auth"}, {"daemon", "sync"}, {"daemon"}>>
Sym == Permutations(Proc) \cup Permutations(Pid)
=============================================================================
