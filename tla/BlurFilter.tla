------------------------------ MODULE BlurFilter ------------------------------
(***************************************************************************)
(* Laba4/blur_filter.cpp: a picture is cut into tiles of TS x TS pixels.  The  *)
(* work items of a tile copy it, with a halo of one pixel, into local memory,   *)
(* meet at a barrier, and blur what is in local memory.  Tiles share nothing:   *)
(* Init chooses the one that is run.  A pixel stands for its place, so a mean   *)
(* is the places it is taken over.                                         *)
(***************************************************************************)
EXTENDS Integers

CONSTANTS TS, HEIGHT, WIDTH

BlurAssumption == /\ TS \in Nat \ {0}
                  /\ HEIGHT \in Nat \ {0} /\ HEIGHT % TS = 0
                  /\ WIDTH \in Nat \ {0} /\ WIDTH % TS = 0

Pixel == (0..(HEIGHT - 1)) \X (0..(WIDTH - 1))
Tile == (0..(HEIGHT \div TS - 1)) \X (0..(WIDTH \div TS - 1))
Item == (0..(TS - 1)) \X (0..(TS - 1))  \* get_local_id
Cell == (0..(TS + 1)) \X (0..(TS + 1))
Offset == (-1..1) \X (-1..1)
Unset == <<>>                           \* what local memory holds at first

VARIABLES tile,
          localData,  \* localData[c]: the pixel that cell c holds
          phase,      \* phase[i]: where item i is
          accOut,     \* accOut[p]: the pixels that p is the mean of, by offset
          verdict     \* what main prints

blurVars == <<tile, localData, phase, accOut, verdict>>

Plus(a, b) == <<a[1] + b[1], a[2] + b[2]>>
Global(i) == Plus(<<tile[1] * TS, tile[2] * TS>>, i)
LocalCell(i) == Plus(i, <<1, 1>>)
InTile == {Global(i) : i \in Item}

Init == /\ tile \in Tile
        /\ localData = [c \in Cell |-> Unset]
        /\ phase = [i \in Item |-> "load"]
        /\ accOut = [p \in InTile |-> <<>>]
        /\ verdict = "none"
----------------------------------------------------------------------------
Inner(p) == p[1] \in 1..(HEIGHT - 2) /\ p[2] \in 1..(WIDTH - 2)

\* blurFilterCPU
Mean(p) == [d \in Offset |-> Plus(p, d)]

\* Mutated form: the corners of the halo are forgotten.
MutLoads(i) == {d \in Offset : \E n \in 1..2 : /\ d[n] = 0
                                              /\ \/ d[3 - n] = 0
                                                 \/ d[3 - n] = -1 /\ i[3 - n] = 0
                                                 \/ d[3 - n] = 1 /\ i[3 - n] = TS - 1}

\* Which neighbours an item loads besides its own pixel: those of the halo.
Loads(i) == {d \in Offset : \A n \in 1..2 : \/ d[n] = 0
                                            \/ d[n] = -1 /\ i[n] = 0
                                            \/ d[n] = 1 /\ i[n] = TS - 1}

\* Beyond the edge of the picture the item's own pixel stands in.
Fetch(p, d) == IF Plus(p, d) \in Pixel THEN Plus(p, d) ELSE p

Load(i) ==
  /\ phase[i] = "load"
  /\ localData' = [c \in Cell |-> LET d == <<c[1] - i[1] - 1, c[2] - i[2] - 1>>
                                  IN  IF d \in Loads(i) THEN Fetch(Global(i), d)
                                      ELSE localData[c]]
  /\ phase' = [phase EXCEPT ![i] = "barrier"]
  /\ UNCHANGED <<tile, accOut, verdict>>

BarrierOpen == \A i \in Item : phase[i] # "load"

\* Past the barrier: the mean of nine cells, or the pixel as it was at the edge.
Blur(i) ==
  /\ phase[i] = "barrier" /\ BarrierOpen
  /\ accOut' = [accOut EXCEPT ![Global(i)] =
                 IF Inner(Global(i)) THEN [d \in Offset |-> localData[Plus(LocalCell(i), d)]]
                 ELSE [d \in {<<0, 0>>} |-> Global(i)]]
  /\ phase' = [phase EXCEPT ![i] = "ended"]
  /\ UNCHANGED <<tile, localData, verdict>>

\* wait() returns; main compares the inner pixels with those of the CPU.
Compare == /\ verdict = "none" /\ \A i \in Item : phase[i] = "ended"
           /\ verdict' = IF \A p \in InTile : Inner(p) => accOut[p] = Mean(p)
                         THEN "good" ELSE "bad"
           /\ UNCHANGED <<tile, localData, phase, accOut>>

Next == Compare \/ \E i \in Item : Load(i) \/ Blur(i)

Fairness == WF_blurVars(Next)

Spec == Init /\ [][Next]_blurVars /\ Fairness
----------------------------------------------------------------------------
\* Every pixel is written once, from cells that all were loaded before it was: with
\* the mean of its neighbours, wherever in its tile it lies, or at the edge of the
\* picture with itself, which main does not compare.
BlurRight ==
  /\ verdict # "bad"
  /\ \A i \in Item :
       accOut[Global(i)] = IF phase[i] # "ended" THEN <<>>
                           ELSE IF Inner(Global(i)) THEN Mean(Global(i))
                           ELSE [d \in {<<0, 0>>} |-> Global(i)]
=============================================================================
