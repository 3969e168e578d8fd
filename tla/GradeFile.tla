------------------------------ MODULE GradeFile ------------------------------
(***************************************************************************)
(* Seminar2/task5.cpp: a table of grades is saved to a file with a header, the    *)
(* file is verified by its size, and loaded.  Between, the file may be cut (the   *)
(* save was interrupted) or have another version or signature.  A grade is one    *)
(* cell of the file, the header is a record; counts wrap around, and verifyFile     *)
(* multiplies two of them.                                                    *)
(***************************************************************************)
EXTENDS Integers, Sequences, SequencesExt

CONSTANTS Tables,     \* what may be saved: sequences of rows of grades
          Versions,   \* versions a file may have
          Modulus     \* where a count wraps around (2^32)

GradesAssumption == Tables \subseteq Seq(Seq(Int)) /\ Modulus \in Nat \ {0}

CurrentVersion == 1

VARIABLES table,      \* the grades main saves
          header,     \* of the file
          cells,      \* the grades in the file
          verified,   \* what verifyFile has returned
          loadedGrades, succeeded,  \* what loadFromFile has left and returned
          doing       \* what main does next

fileVars == <<table, header, cells, verified, loadedGrades, succeeded, doing>>

Init == /\ table \in Tables
        /\ header = [signature |-> FALSE, version |-> 0, studentCount |-> 0, subjectCount |-> 0]
        /\ cells = <<>> /\ verified = FALSE
        /\ loadedGrades = <<>> /\ succeeded = FALSE
        /\ doing = "save"
----------------------------------------------------------------------------
Saved == [signature |-> TRUE, version |-> CurrentVersion,
          studentCount |-> Len(table),
          subjectCount |-> IF table = <<>> THEN 0 ELSE Len(table[1])]

\* The header takes the number of subjects from the first row; all rows are written
\* as they are.
SaveToFile == /\ doing = "save"
              /\ header' = Saved
              /\ cells' = FlattenSeq(table)
              /\ doing' = "verify"
              /\ UNCHANGED <<table, verified, loadedGrades, succeeded>>

\* The save was interrupted between two cells, or the file is another one.  A header that
\* is itself cut short and a file that cannot be opened are refused as a wrong signature
\* before no cells is, which takes two of these steps.
Damage == /\ doing = "verify" /\ header = Saved
          /\ \/ \E n \in 0..(Len(cells) - 1) : cells' = SubSeq(cells, 1, n) /\ UNCHANGED header
             \/ \E v \in Versions \ {CurrentVersion} :
                  header' = [header EXCEPT !.version = v] /\ UNCHANGED cells
             \/ header' = [header EXCEPT !.signature = FALSE] /\ UNCHANGED cells
          /\ UNCHANGED <<table, verified, loadedGrades, succeeded, doing>>

ExpectedCells == (header.studentCount * header.subjectCount) % Modulus

\* The version is not looked at.
VerifyFile == /\ doing = "verify"
              /\ verified' = (header.signature /\ Len(cells) = ExpectedCells)
              /\ doing' = "load"
              /\ UNCHANGED <<table, header, cells, loadedGrades, succeeded>>

HeaderAccepted == header.signature /\ header.version = CurrentVersion

RefuseHeader == /\ doing = "load" /\ ~HeaderAccepted
                /\ succeeded' = FALSE
                /\ doing' = "done"
                /\ UNCHANGED <<table, header, cells, verified, loadedGrades>>

\* The row i as it is read, whatever rows were written.
Row(i) == SubSeq(cells, (i - 1) * header.subjectCount + 1, i * header.subjectCount)

\* Mutated form: a row that ends with the file is taken for one that is cut.
MutWholeRows ==
  Cardinality({i \in 1..header.studentCount : i * header.subjectCount < Len(cells)})

WholeRows ==
  Cardinality({i \in 1..header.studentCount : i * header.subjectCount <= Len(cells)})

\* The rows up to the first that cannot be read stay in the caller's table.
LoadFromFile == /\ doing = "load" /\ HeaderAccepted
                /\ loadedGrades' = [i \in 1..WholeRows |-> Row(i)]
                /\ succeeded' = (WholeRows = header.studentCount)
                /\ doing' = "done"
                /\ UNCHANGED <<table, header, cells, verified>>

Next == SaveToFile \/ Damage \/ VerifyFile \/ RefuseHeader \/ LoadFromFile

Spec == Init /\ [][Next]_fileVars
----------------------------------------------------------------------------
Rectangular == \A i \in DOMAIN table : Len(table[i]) = Len(table[1])
Undamaged == header = Saved /\ cells = FlattenSeq(table)
CellsOf(rows) == FlattenSeq(rows)

\* What is loaded is what was saved, and verifyFile and loadFromFile agree, but for what
\* each overlooks: the version, the overflow of the product, and cells that are left
\* over (rows of different lengths).  A failed load leaves a prefix of the table.
LoadedAsSaved ==
  doing = "done" =>
    /\ Undamaged /\ Rectangular => succeeded /\ loadedGrades = table
    /\ succeeded => /\ Len(loadedGrades) = header.studentCount
                    /\ \A i \in DOMAIN loadedGrades :
                         Len(loadedGrades[i]) = header.subjectCount
    /\ IsPrefix(CellsOf(loadedGrades), cells)
    /\ verified /\ header.version = CurrentVersion
         /\ header.studentCount * header.subjectCount < Modulus => succeeded
    /\ succeeded /\ Rectangular
         /\ header.studentCount * header.subjectCount < Modulus => verified
=============================================================================
