------------------------------ MODULE Exercises ------------------------------
(***************************************************************************)
(* The programs of Seminar2 and Seminar4, those of the network and the          *)
(* coroutines, one of which Init chooses.  The programs share nothing; they are  *)
(* put together to be checked and proved about at one place.                 *)
(***************************************************************************)
EXTENDS Integers, Sequences, FiniteSets

CONSTANTS Size, NThreads,
          Producer, Consumer, Capacity, Supply, Demands,
          Pushes, Consumers,
          InitialBalance, Plans,
          Sets, Gets,
          Conversations, Sessions, ToSend, MaxLines,
          MessageCount, Clients, Ops, Amounts,
          Preset, Newcomers, Thresholds, MaxStudents,
          Tables, Versions, Modulus,
          Writers, MainLines

VARIABLES program,
          total_sum, completed_threads, handled, started, worker, caller, result,
          buffer, write_pos, read_pos, count, done, place, rounds, demand, got, main,
          pq, pushed, popped, pqDone, consumer, calls, wanted, pqMain,
          plan, balance, owner, stand, completed_transfers, bankMain,
          data, setCount, getter, value, cacheMain,
          lines, received, readUpTo, accumulator, posted, armed, due, cancelled, written,
          reading,
          server, sent, taken, echoed, session, onStrand, loaded, global_message_count, reads,
          connection, connecting, io, typed, write, delivered, readers, confirmed, echoes,
          early,
          mock, posts, fetched, read, chunk, open, shown, raced, demo,
          strand, balance_, opsDone, phase, deposited, withdrawn, total_deposited,
          total_withdrawn, pool, asking, real_balance,
          heap, nextStudent, allStudents, groupName, group, saved, choice,
          table, header, cells, verified, loadedGrades, succeeded, doing,
          writer, holder, console, log_file, is_open, logged, logMain

Sum == INSTANCE ParallelSum
Ring == INSTANCE RingBuffer
PQ == INSTANCE PriorityQueue
Banking == INSTANCE Bank
Caching == INSTANCE Cache
Session == INSTANCE LineSession
Echo == INSTANCE EchoServer
Chat == INSTANCE ChatClient
Mux == INSTANCE Multiplexer WITH posted <- posts
Account == INSTANCE CoroutineBank
Menu == INSTANCE GroupMenu
Grades == INSTANCE GradeFile
Log == INSTANCE Logger
ASSUME ExercisesAssumption == /\ Sum!SumAssumption /\ Ring!RingAssumption
                              /\ PQ!PQAssumption /\ Banking!BankAssumption
                              /\ Caching!CacheAssumption
                              /\ Session!SessionAssumption
                              /\ Echo!EchoAssumption /\ Chat!ClientAssumption
                              /\ Mux!MultiplexerAssumption
                              /\ Account!AccountAssumption /\ Menu!MenuAssumption
                              /\ Grades!GradesAssumption /\ Log!LoggerAssumption

sumVars == <<total_sum, completed_threads, handled, started, worker, caller, result>>
ringVars == <<buffer, write_pos, read_pos, count, done, place, rounds, demand, got, main>>
pqVars == <<pq, pushed, popped, pqDone, consumer, calls, wanted, pqMain>>
bankVars == <<plan, balance, owner, stand, completed_transfers, bankMain>>
cacheVars == <<data, setCount, getter, value, cacheMain>>
sessionVars == <<lines, received, readUpTo, accumulator, posted, armed, due, cancelled,
                 written, reading>>
echoVars == <<server, sent, taken, echoed, session, onStrand, loaded,
              global_message_count, reads>>
clientVars == <<connection, connecting, io, typed, write, delivered, readers, confirmed,
                echoes, early>>
muxVars == <<mock, posts, fetched, read, chunk, open, shown, raced, demo>>
accountVars == <<strand, balance_, opsDone, phase, deposited, withdrawn, total_deposited,
                 total_withdrawn, pool, asking, real_balance>>
menuVars == <<heap, nextStudent, allStudents, groupName, group, saved, choice>>
fileVars == <<table, header, cells, verified, loadedGrades, succeeded, doing>>
logVars == <<writer, holder, console, log_file, is_open, logged, logMain>>
vars == <<program, sumVars, ringVars, pqVars, bankVars, cacheVars, sessionVars, echoVars,
          clientVars, muxVars, accountVars, menuVars, fileVars, logVars>>

\* A program that is not chosen takes no step: it stays in a state of no action.
SumOff == /\ caller = "off" /\ worker = [t \in Sum!Thread |-> "off"]
          /\ total_sum = 0 /\ completed_threads = 0 /\ handled = 0
          /\ started = 0 /\ result = 0

RingOff == /\ main = "off" /\ place = [t \in Ring!Thread |-> "off"]
           /\ buffer = 0 /\ write_pos = 0 /\ read_pos = 0 /\ count = 0
           /\ done = FALSE /\ demand = 0 /\ got = 0
           /\ rounds = [t \in Ring!Thread |-> 0]

PQOff == /\ pq = {} /\ popped = <<>> /\ pqDone = FALSE /\ pqMain = "off"
         /\ pushed = [p \in PQ!PQProducer |-> Len(Pushes[p])]
         /\ consumer = [c \in PQ!PQConsumer |-> "off"]
         /\ calls = [c \in PQ!PQConsumer |-> 0] /\ wanted = 0

BankOff == /\ plan = <<>> /\ balance = InitialBalance /\ stand = <<>>
           /\ owner = [a \in Banking!Account |-> 0]
           /\ completed_transfers = 0 /\ bankMain = "off"

CacheOff == /\ data = {} /\ setCount = [s \in Caching!Setter |-> 0]
            /\ getter = [g \in Caching!Getter |-> "off"]
            /\ value = [g \in Caching!Getter |-> 0] /\ cacheMain = "returned"

SessionOff == /\ lines = <<>> /\ received = 0 /\ readUpTo = 0 /\ accumulator = <<>>
              /\ posted = <<>> /\ armed = 0 /\ due = {} /\ cancelled = {} /\ written = <<>>
              /\ reading = FALSE

EchoOff == /\ server = "off" /\ onStrand = 0 /\ loaded = 0 /\ global_message_count = 0
           /\ session = [s \in Echo!Peer |-> "connecting"]
           /\ sent = [s \in Echo!Peer |-> 0] /\ taken = sent /\ echoed = sent /\ reads = 0

ChatOff == /\ connection = "down" /\ connecting = FALSE /\ io = "stopped" /\ typed = 0
           /\ write = [n \in Chat!Line |-> "none"] /\ delivered = 0 /\ readers = 0
           /\ confirmed = {} /\ echoes = 0 /\ early = {}

MuxOff == /\ mock = [i \in Mux!Source |-> "off"] /\ demo = "off" /\ open = {}
          /\ posts = [i \in Mux!Source |-> 0] /\ fetched = posts
          /\ read = [i \in Mux!Source |-> "none"]
          /\ chunk = [i \in Mux!Source |-> {}] /\ shown = chunk /\ raced = posts

AccountOff == /\ strand = <<>> /\ balance_ = 0 /\ total_deposited = 0
              /\ total_withdrawn = 0 /\ pool = FALSE /\ asking = "off" /\ real_balance = 0
              /\ opsDone = [c \in Account!Coroutine |-> 0]
              /\ deposited = opsDone /\ withdrawn = opsDone
              /\ phase = [c \in Account!Coroutine |-> "off"]

MenuOff == /\ heap = <<>> /\ nextStudent = 0 /\ allStudents = <<>> /\ group = <<>>
           /\ groupName = "off" /\ saved = <<>> /\ choice = "off"

GradesOff == /\ table = <<>> /\ header = 0 /\ cells = <<>> /\ verified = FALSE
             /\ loadedGrades = <<>> /\ succeeded = FALSE /\ doing = "off"

LogOff == /\ writer = [t \in Log!Writer |-> "off"] /\ holder = 0 /\ console = <<>>
          /\ log_file = <<>> /\ is_open = FALSE /\ logged = 0 /\ logMain = "ended"

Off(P) == /\ P # "ParallelSum" => SumOff
          /\ P # "RingBuffer" => RingOff
          /\ P # "PriorityQueue" => PQOff
          /\ P # "Bank" => BankOff
          /\ P # "Cache" => CacheOff
          /\ P # "LineSession" => SessionOff
          /\ P # "EchoServer" => EchoOff
          /\ P # "ChatClient" => ChatOff
          /\ P # "Multiplexer" => MuxOff
          /\ P # "CoroutineBank" => AccountOff
          /\ P # "GroupMenu" => MenuOff
          /\ P # "GradeFile" => GradesOff
          /\ P # "Logger" => LogOff

Init == /\ \/ program = "ParallelSum" /\ Sum!Init
           \/ program = "RingBuffer" /\ Ring!Init
           \/ program = "PriorityQueue" /\ PQ!Init
           \/ program = "Bank" /\ Banking!Init
           \/ program = "Cache" /\ Caching!Init
           \/ program = "LineSession" /\ Session!Init
           \/ program = "EchoServer" /\ Echo!Init
           \/ program = "ChatClient" /\ Chat!Init
           \/ program = "Multiplexer" /\ Mux!Init
           \/ program = "CoroutineBank" /\ Account!Init
           \/ program = "GroupMenu" /\ Menu!Init
           \/ program = "GradeFile" /\ Grades!Init
           \/ program = "Logger" /\ Log!Init
        /\ Off(program)

Next ==
  \/ /\ program = "ParallelSum" /\ Sum!Next
     /\ UNCHANGED <<program, ringVars, pqVars, bankVars, cacheVars, sessionVars, echoVars,
                    clientVars, muxVars, accountVars, menuVars, fileVars, logVars>>
  \/ /\ program = "RingBuffer" /\ Ring!Next
     /\ UNCHANGED <<program, sumVars, pqVars, bankVars, cacheVars, sessionVars, echoVars,
                    clientVars, muxVars, accountVars, menuVars, fileVars, logVars>>
  \/ /\ program = "PriorityQueue" /\ PQ!Next
     /\ UNCHANGED <<program, sumVars, ringVars, bankVars, cacheVars, sessionVars, echoVars,
                    clientVars, muxVars, accountVars, menuVars, fileVars, logVars>>
  \/ /\ program = "Bank" /\ Banking!Next
     /\ UNCHANGED <<program, sumVars, ringVars, pqVars, cacheVars, sessionVars, echoVars,
                    clientVars, muxVars, accountVars, menuVars, fileVars, logVars>>
  \/ /\ program = "Cache" /\ Caching!Next
     /\ UNCHANGED <<program, sumVars, ringVars, pqVars, bankVars, sessionVars, echoVars,
                    clientVars, muxVars, accountVars, menuVars, fileVars, logVars>>
  \/ /\ program = "LineSession" /\ Session!Next
     /\ UNCHANGED <<program, sumVars, ringVars, pqVars, bankVars, cacheVars, echoVars,
                    clientVars, muxVars, accountVars, menuVars, fileVars, logVars>>
  \/ /\ program = "EchoServer" /\ Echo!Next
     /\ UNCHANGED <<program, sumVars, ringVars, pqVars, bankVars, cacheVars, sessionVars,
                    clientVars, muxVars, accountVars, menuVars, fileVars, logVars>>
  \/ /\ program = "ChatClient" /\ Chat!Next
     /\ UNCHANGED <<program, sumVars, ringVars, pqVars, bankVars, cacheVars, sessionVars,
                    echoVars, muxVars, accountVars, menuVars, fileVars, logVars>>
  \/ /\ program = "Multiplexer" /\ Mux!Next
     /\ UNCHANGED <<program, sumVars, ringVars, pqVars, bankVars, cacheVars, sessionVars,
                    echoVars, clientVars, accountVars, menuVars, fileVars, logVars>>
  \/ /\ program = "CoroutineBank" /\ Account!Next
     /\ UNCHANGED <<program, sumVars, ringVars, pqVars, bankVars, cacheVars, sessionVars,
                    echoVars, clientVars, muxVars, menuVars, fileVars, logVars>>
  \/ /\ program = "GroupMenu" /\ Menu!Next
     /\ UNCHANGED <<program, sumVars, ringVars, pqVars, bankVars, cacheVars, sessionVars,
                    echoVars, clientVars, muxVars, accountVars, fileVars, logVars>>
  \/ /\ program = "GradeFile" /\ Grades!Next
     /\ UNCHANGED <<program, sumVars, ringVars, pqVars, bankVars, cacheVars, sessionVars,
                    echoVars, clientVars, muxVars, accountVars, menuVars, logVars>>
  \/ /\ program = "Logger" /\ Log!Next
     /\ UNCHANGED <<program, sumVars, ringVars, pqVars, bankVars, cacheVars, sessionVars,
                    echoVars, clientVars, muxVars, accountVars, menuVars, fileVars>>

Spec == /\ Init /\ [][Next]_vars
        /\ Sum!Fairness /\ Ring!Fairness /\ PQ!Fairness /\ Banking!Fairness
        /\ Caching!Fairness /\ Session!Fairness /\ Mux!Fairness /\ Account!Fairness
----------------------------------------------------------------------------
\* compute_sum returns the complete sum.
SumConsistent == program = "ParallelSum" => Sum!SumConsistent

\* compute_sum returns unless the one race happens.
ReturnsWithoutRace == program = "ParallelSum" => Sum!ReturnsWithoutRace

\* The ring's positions, count and sleepers agree.
RingConsistent == program = "RingBuffer" => Ring!RingConsistent

\* The ring is a bounded FIFO channel.
RingIsChannel == Ring!RingIsChannel

\* A consumer gets the oldest item, or T{} when there will be none.
ReturnsTheOldest == Ring!ReturnsTheOldest

\* Values are popped once and nobody sleeps beside one; a getter sleeps only while
\* its key is missing.
QueuesConsistent == /\ program = "PriorityQueue" => PQ!PopsConsistent
                    /\ program = "Cache" => Caching!CacheConsistent

\* Transfers never wait for each other in a circle, and no money is lost.
BankConsistent == program = "Bank" => Banking!BankConsistent

\* When the consumers of the ring and of the priority queue ask for as much as
\* there is, as in main, every thread ends and main returns: the race of set_done
\* decides nothing.  And every getter gets its value unless main returns first.
AllJoined == <>(\/ program \notin {"RingBuffer", "PriorityQueue", "Cache"}
                \/ program = "RingBuffer" /\ (demand # 2 \/ main = "returned")
                \/ program = "PriorityQueue" /\ (wanted # 2 \/ pqMain = "returned")
                \/ program = "Cache" /\ \/ cacheMain = "returned"
                                        \/ \A g \in Caching!Getter : getter[g] = "ended")

\* The echo server and its client: no increment of the count is lost; nothing is
\* confirmed that was sent when the client's thread had ended.
NetworkConsistent == /\ program = "EchoServer" => Echo!EchoConsistent
                     /\ program = "ChatClient" => Chat!ClientConsistent

\* The coroutines: a message is printed once or lost to a race, and none is lost once one
\* socket alone is read; the balance is what the totals say.
CoroutinesConsistent == /\ program = "Multiplexer" => Mux!MessagesAccountedFor
                        /\ program = "CoroutineBank" => Account!AccountConsistent

\* Lines and records.  Laba3: every complete line is answered once, pending or cancelled.
\* Seminar2: students are owned and freed once; grades are loaded as they were saved.
\* Seminar4: lines of one Logger are whole, and its file agrees with the console.
FilesConsistent == /\ program = "LineSession" => Session!LinesAnsweredOnce
                   /\ program = "GroupMenu" => Menu!OwnershipConsistent
                   /\ program = "GradeFile" => Grades!LoadedAsSaved
                   /\ program = "Logger" => Log!LinesWhole

\* A session answers all but what it cancelled unless the connection breaks, and the
\* multiplexer ends with its servers, whatever races it lost.
NetworkProgresses == <>(\/ program \notin {"LineSession", "Multiplexer"}
                        \/ program = "LineSession" /\ Session!Answered
                        \/ program = "Multiplexer" /\ demo = "ended")
=============================================================================
