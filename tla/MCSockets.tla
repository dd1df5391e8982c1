------------------------------- MODULE MCSockets -------------------------------
(* Small instances of Sockets for TLC. *)
EXTENDS Sockets

AllUsers == {"network", "button", "twt"}
NetworkAndButton == {"network", "button"}
ButtonOnly == {"button"}

AllFaults == {"resolve", "socket", "connect", "request"}
ResolveFault == {"resolve"}

ThreeFds == {3, 4, 5}
FourFds == {3, 4, 5, 6}
================================================================================
