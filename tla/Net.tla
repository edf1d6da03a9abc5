----------------------------------- MODULE Net -----------------------------------
(***************************************************************************)
(* The parts of the network code in one system, each with the parts around *)
(* it as its module says: the driver, what is sent and received through    *)
(* it, remote files, and the name space.                                   *)
(***************************************************************************)
EXTENDS Ether, Datagram, RemoteFile, NameSpace

VARIABLE part        (* which of them this behaviour is about *)

netVars == <<etherOwn, dgramOwn, rfOwn, nameVars, cont, part>>

NetInit ==
  /\ EtherInit /\ InternetInit /\ RemoteInit /\ NameInit
  /\ \/ part = "internet" /\ cont = Booting
     \/ part \in {"ether", "files", "names"} /\ cont = [p \in Procs |-> Where("user")]

NetNext ==
  \/ part = "ether" /\ EtherNext /\ UNCHANGED <<dgramOwn, rfOwn, nameVars, part>>
  \/ part = "internet" /\ InternetNext /\ UNCHANGED <<etherOwn, rfOwn, nameVars, part>>
  \/ part = "files" /\ RemoteNext /\ UNCHANGED <<etherOwn, dgramOwn, nameVars, part>>
  \/ part = "names" /\ NameNext /\ UNCHANGED <<etherOwn, dgramOwn, rfOwn, cont, part>>

NetSpec == NetInit /\ [][NetNext]_netVars
==================================================================================
