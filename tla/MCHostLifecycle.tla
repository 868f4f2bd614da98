--------------------------- MODULE MCHostLifecycle ---------------------------
(* Cards of one kind, and cards of all kinds.                              *)
EXTENDS HostLifecycle

MmcOnly == {"mmc"}
AllKinds == {"mmc", "sd", "sdio"}
===============================================================================
