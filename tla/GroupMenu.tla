------------------------------ MODULE GroupMenu ------------------------------
(***************************************************************************)
(* Seminar2/task10-task11: the menu of the university program.  The group holds  *)
(* pointers to students; main owns the students, in allStudents, and frees them.  *)
(* A student is a number, an address that is never used twice; of what it is,    *)
(* the name and the average count.                                            *)
(***************************************************************************)
EXTENDS Integers, Sequences, Functions, FiniteSetsExt

CONSTANTS Preset,      \* the students main begins with: a sequence of <<name, average>>
          Newcomers,   \* what the user may enter
          Thresholds,
          MaxStudents  \* bound of the model: students ever made

MenuAssumption == /\ Preset \in Seq(STRING \X Int) /\ Newcomers \subseteq STRING \X Int
                  /\ Thresholds \subseteq Int /\ MaxStudents \in Nat

VARIABLES heap,        \* heap[s]: what student s is, for all that are not freed
          nextStudent, \* the address of the next one
          allStudents, \* a sequence of students
          groupName, group,  \* the name, and a sequence of students
          saved,       \* the file: <<>>, or one <<name, a sequence of students' data>>
          choice       \* "menu", or "ended" after the loop

menuVars == <<heap, nextStudent, allStudents, groupName, group, saved, choice>>

Name(s) == heap[s][1]
Average(s) == heap[s][2]

Init == /\ heap = Preset /\ nextStudent = Len(Preset) + 1
        /\ allStudents = [s \in DOMAIN Preset |-> s] /\ group = allStudents
        /\ groupName = "first" /\ saved = <<>> /\ choice = "menu"
----------------------------------------------------------------------------
\* case 2, a student with grades; a number of grades that is no number, or is
\* negative, frees the student again and changes nothing.
AddStudent(student) ==
  /\ choice = "menu" /\ nextStudent <= MaxStudents
  /\ heap' = [s \in DOMAIN heap \cup {nextStudent} |->
               IF s = nextStudent THEN student ELSE heap[s]]
  /\ nextStudent' = nextStudent + 1
  /\ allStudents' = Append(allStudents, nextStudent)
  /\ group' = Append(group, nextStudent)
  /\ UNCHANGED <<groupName, saved, choice>>

\* case 3: the first student of that name leaves the group, and stays owned.
RemoveStudent(name) ==
  /\ choice = "menu"
  /\ LET found == {i \in DOMAIN group : Name(group[i]) = name}
         first == Min(found)
     IN  group' = IF found = {} THEN group
                  ELSE SubSeq(group, 1, first - 1) \o SubSeq(group, first + 1, Len(group))
  /\ UNCHANGED <<heap, nextStudent, allStudents, groupName, saved, choice>>

Sorted(g) == \A i \in 1..(Len(g) - 1) : Average(g[i]) >= Average(g[i + 1])

\* case 5: any order of the same students that is sorted; std::sort is not stable.
SortStudents ==
  /\ choice = "menu"
  /\ group' \in {g \in [DOMAIN group -> Range(group)] : IsInjective(g) /\ Sorted(g)}
  /\ UNCHANGED <<heap, nextStudent, allStudents, groupName, saved, choice>>

\* case 6
FilterByThreshold(threshold) ==
  /\ choice = "menu"
  /\ group' = MapThenFoldSet(LAMBDA s, kept : IF Average(s) < threshold THEN kept
                                               ELSE Append(kept, s),
                              <<>>, LAMBDA i : group[i], Max, DOMAIN group)
  /\ UNCHANGED <<heap, nextStudent, allStudents, groupName, saved, choice>>

\* case 7, FileManager::saveGroup
SaveGroup == /\ choice = "menu"
             /\ saved' = <<groupName, [i \in DOMAIN group |-> heap[group[i]]]>>
             /\ UNCHANGED <<heap, nextStudent, allStudents, groupName, group, choice>>

\* Mutated form: the old students are freed and the old group is kept.
MutTakeOver(loaded) == /\ allStudents' = loaded
                       /\ UNCHANGED <<group, groupName>>

\* The group that main was given is replaced by the loaded one, whose name is not
\* that of the file.
TakeOver(loaded) == /\ allStudents' = loaded
                    /\ group' = loaded
                    /\ groupName' = "loaded"

\* case 8, FileManager::loadGroup: new students are made, all old ones are freed.
LoadGroup ==
  /\ choice = "menu" /\ saved # <<>>
  /\ LET data == saved[2]
         loaded == [i \in DOMAIN data |-> nextStudent + i - 1]
     IN  /\ nextStudent + Len(data) <= MaxStudents + 1
         /\ heap' = [s \in Range(loaded) |-> data[s - nextStudent + 1]]
         /\ nextStudent' = nextStudent + Len(data)
         /\ TakeOver(loaded)
  /\ UNCHANGED <<saved, choice>>

\* case 0, and a choice that is not a number: the failed extraction has set choice to
\* 0, so "try again" leaves the loop.  All students are freed.
Leave == /\ choice = "menu"
         /\ choice' = "ended"
         /\ heap' = [s \in DOMAIN heap \ Range(allStudents) |-> heap[s]]
         /\ UNCHANGED <<nextStudent, allStudents, groupName, group, saved>>

Next == \/ \E student \in Newcomers : AddStudent(student) \/ RemoveStudent(student[1])
        \/ SortStudents
        \/ \E threshold \in Thresholds : FilterByThreshold(threshold)
        \/ SaveGroup \/ LoadGroup \/ Leave

Spec == Init /\ [][Next]_menuVars
----------------------------------------------------------------------------
\* Every student that is not freed is owned, once, and the group holds only such
\* students, each once; in the end none is left.
OwnershipConsistent ==
  /\ IsInjective(allStudents) /\ IsInjective(group)
  /\ choice = "menu" => /\ Range(allStudents) = DOMAIN heap
                        /\ Range(group) \subseteq DOMAIN heap
  /\ choice = "ended" => DOMAIN heap = {}
=============================================================================
