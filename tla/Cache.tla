-------------------------------- MODULE Cache --------------------------------
(***************************************************************************)
(* Seminar4/task5.cpp: detached threads set keys of a map and get them, under   *)
(* one mutex; a get sleeps until its key is there, and a set wakes all only     *)
(* when its key is new.  main waits for some time, prints the contents and      *)
(* returns, whatever the threads are doing.                                 *)
(***************************************************************************)
EXTENDS Integers, Sequences, FiniteSets

CONSTANTS Sets,  \* Sets[s]: what setter s sets, a sequence of <<key, value>>
          Gets   \* Gets[g]: the key getter g gets

Setter == DOMAIN Sets
Getter == DOMAIN Gets
CacheAssumption == \A s \in Setter : Sets[s] \in Seq(STRING \X Int)

VARIABLES data,     \* the map, as the set of its entries
          setCount, \* setCount[s]: how many keys setter s has set
          getter,   \* getter[g]: where getter g is
          value,    \* value[g]: what its get has returned, 0 before
          cacheMain \* where main is

cacheVars == <<data, setCount, getter, value, cacheMain>>

Init == /\ data = {}
        /\ setCount = [s \in Setter |-> 0]
        /\ getter = [g \in Getter |-> "test"]
        /\ value = [g \in Getter |-> 0]
        /\ cacheMain = "sleep"
----------------------------------------------------------------------------
Has(key) == \E e \in data : e[1] = key
Lookup(key) == (CHOOSE e \in data : e[1] = key)[2]
Running == cacheMain # "returned"

Put(entry) == {e \in data : e[1] # entry[1]} \cup {entry}
AllWoken == [g \in Getter |-> IF getter[g] = "asleep" THEN "test" ELSE getter[g]]

\* Mutated form: wakes the getters only when the key is not new.
MutSet(s) == /\ Running /\ setCount[s] < Len(Sets[s])
             /\ LET entry == Sets[s][setCount[s] + 1]
                IN  /\ data' = Put(entry)
                    /\ getter' = IF Has(entry[1]) THEN AllWoken ELSE getter
             /\ setCount' = [setCount EXCEPT ![s] = @ + 1]
             /\ UNCHANGED <<value, cacheMain>>

Set(s) == /\ Running /\ setCount[s] < Len(Sets[s])
          /\ LET entry == Sets[s][setCount[s] + 1]
             IN  /\ data' = Put(entry)
                 /\ getter' = IF Has(entry[1]) THEN getter ELSE AllWoken
          /\ setCount' = [setCount EXCEPT ![s] = @ + 1]
          /\ UNCHANGED <<value, cacheMain>>

Sleep(g) == /\ Running /\ getter[g] = "test" /\ ~Has(Gets[g])
            /\ getter' = [getter EXCEPT ![g] = "asleep"]
            /\ UNCHANGED <<data, setCount, value, cacheMain>>

SpuriousWake(g) == /\ Running /\ getter[g] = "asleep"
                   /\ getter' = [getter EXCEPT ![g] = "test"]
                   /\ UNCHANGED <<data, setCount, value, cacheMain>>

Get(g) == /\ Running /\ getter[g] = "test" /\ Has(Gets[g])
          /\ value' = [value EXCEPT ![g] = Lookup(Gets[g])]
          /\ getter' = [getter EXCEPT ![g] = "ended"]
          /\ UNCHANGED <<data, setCount, cacheMain>>

PrintAll == /\ cacheMain = "sleep"
            /\ cacheMain' = "printed"
            /\ UNCHANGED <<data, setCount, getter, value>>

ReturnFromMain == /\ cacheMain = "printed"
                  /\ cacheMain' = "returned"
                  /\ UNCHANGED <<data, setCount, getter, value>>

Next == \/ PrintAll \/ ReturnFromMain
        \/ \E s \in Setter : Set(s)
        \/ \E g \in Getter : Sleep(g) \/ SpuriousWake(g) \/ Get(g)

\* Nothing makes main wait for the threads.
Fairness == /\ WF_cacheVars(\E s \in Setter : Set(s))
            /\ \A g \in Getter : WF_cacheVars(Sleep(g) \/ Get(g))

Spec == Init /\ [][Next]_cacheVars /\ Fairness
----------------------------------------------------------------------------
\* One entry per key; a getter sleeps only while its key is missing, though a set
\* of a key that is there wakes nobody; and it returns what was set for its key.
CacheConsistent ==
  /\ \A d, e \in data : d[1] = e[1] => d = e
  /\ \A g \in Getter : /\ getter[g] = "asleep" => ~Has(Gets[g])
                       /\ getter[g] = "ended" =>
                            \E s \in Setter : \E n \in 1..setCount[s] :
                              Sets[s][n] = <<Gets[g], value[g]>>
=============================================================================
