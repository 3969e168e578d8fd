----------------------------- MODULE MCWorkshops -----------------------------
(* Three processes at the barrier, one of which may die; two files for a pool of  *)
(* at most three threads; five workers for three machines; four workers for three  *)
(* blanks; four employees for two turnstiles; two machines for three orders, one   *)
(* of which is urgent; four or five numbers, or the primes up to 25, for up to     *)
(* three threads; a picture of 3 x 3 tiles.                                   *)
EXTENDS Workshops
MCContent == {<<>>, <<"letter", "letter", "letter">>, <<"letter", "space", "letter">>,
              <<"space", "letter", "letter", "letter">>}
MCPriority == <<2, 1, 3>>
MCDuration == <<2, 1, 1>>
MCArrays == {<<3, 1, 2, 1, 2>>, <<7, 7, 0, 5>>}
=============================================================================
