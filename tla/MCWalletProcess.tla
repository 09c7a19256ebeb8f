--------------------------- MODULE MCWalletProcess ---------------------------
(* Instance of WalletProcess.  A tick is five seconds.                      *)
EXTENDS WalletProcess

Env(min, max, rps, burst, readKey) ==
  [wellFormed |-> TRUE, min |-> min, max |-> max, rps |-> rps, burst |-> burst,
   readKey |-> readKey]

\* Limited to a burst of one, unlimited, and one of each refused kind.
MCConfigs ==
  { Env(0, 1, 1, 1, "read"), Env(0, 2, 0, 1, "none"),
    Env(2, 1, 1, 1, "none"), Env(0, 0, 0, 1, "none"),
    Env(0, 1, 1, 0, "none"), Env(0, 1, 1, 1, "same"),
    [Env(0, 1, 1, 1, "read") EXCEPT !.wellFormed = FALSE] }
=============================================================================
