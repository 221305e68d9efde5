--------------------------- MODULE MCDriveAdapter ---------------------------
(***************************************************************************)
(* Two adapters of one endpoint /r, on two computers or in two processes:  *)
(* a folder d, and a file f in a folder e of d.                            *)
(***************************************************************************)
EXTENDS DriveAdapter

CONSTANTS a1, a2, r, d, e, f

MCName == {r, d, e, f, Dot}
MCRoot == [a \in Adapter |-> <<r>>]
MCFolders == {<<d>>}
MCFiles == {<<d, e, f>>}
MCMaxCalls == [a \in Adapter |-> IF a = a1 THEN 3 ELSE 1]
MCKinds == [a \in Adapter |-> IF a = a1 THEN Kinds ELSE {"write", "mkdir", "delete"}]
=============================================================================
