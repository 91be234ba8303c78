----------------------------- MODULE MCThrottle -----------------------------
(***************************************************************************)
(* Instances of Throttle for TLC.                                          *)
(***************************************************************************)
EXTENDS Throttle, TLC

CONSTANTS w1, w2

MCTwoWorkers == {w1, w2}
MCOneWorker == {w1}
SymWorkers == Permutations({w1, w2})

\* An IPv4 and an IPv6 address in short, and a second IPv6 address that
\* differs from the first in the place of its colons and shares its key.
MCDot == <<"1", ".", "2">>
MCColon == <<"1", ":", "1", "2">>
MCColon2 == <<"1", "1", ":", "2">>
MCOne == {MCDot}
MCThree == {MCDot, MCColon, MCColon2}
MCKeyChars == {"1", "2", "_", ".", "-"}
=============================================================================
