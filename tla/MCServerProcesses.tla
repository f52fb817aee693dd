--------------------------- MODULE MCServerProcesses ---------------------------
(***************************************************************************)
(* Instances of ServerProcesses for TLC.                                   *)
(***************************************************************************)
EXTENDS ServerProcesses

\* Every kind of call, but that a MATCH is to these servers what an OTHER is.
AllCalls == {c \in CallType : c.op # "MATCH"}
================================================================================
