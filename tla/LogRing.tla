------------------------------- MODULE LogRing -------------------------------
(***************************************************************************)
(* The log ring of one core: app_log_writer.c on the core that prints and  *)
(* app_log_reader.c on the core with the console share a ring of bytes and *)
(* two indices, without a lock.  The writer puts a message in byte by byte *)
(* and a NUL after it, then moves its index; the reader takes bytes out up *)
(* to a NUL or the end of a line, then moves its own and prints the line.  *)
(*                                                                         *)
(* Every access to the shared memory is a step.  What the memory holds     *)
(* before the two cores start is arbitrary, except that it is not marked   *)
(* valid; the core that prints may start again at any time.  A message     *)
(* there is no room for is dropped and leaves no trace.                    *)
(***************************************************************************)
EXTENDS Integers, Sequences, FiniteSets

CONSTANTS Size,            \* APP_LOG_PER_CPU_MEM_SIZE
          Text,            \* messages: sequences of "char" and "eol"
          MaxMsg,          \* bound: number of messages
          MaxRestart,      \* bound: restarts of the writer
          Nul, Old         \* the byte 0, and what memory holds at power on

Place == 0..(Size - 1)
Index == 0..Size           \* Size stands for every index past the end
Byte == [msg : 1..MaxMsg, at : Nat \ {0}, eol : BOOLEAN]

ASSUME LogAssumption ==
  /\ Size \in Nat \ {0} /\ MaxMsg \in Nat /\ MaxRestart \in Nat
  /\ Text \subseteq Seq({"char", "eol"}) \ {<<>>}
  /\ Nul \notin Byte /\ Old \notin Byte /\ Nul # Old

VARIABLES mem, wr, rd, valid,      \* app_log_cpu_shared_mem_t
          writing, text, at,       \* appLogWrPutString: where it is
          reading, next, left, line,   \* appLogRdGetString: where it is
          accepted,                \* messages put into the ring
          printed,                 \* lines sent to the console
          brimful,                 \* a message filled the ring to its last byte
          restarts                 \* how often the writer started again

ringVars == <<mem, wr, rd, valid, writing, text, at, reading, next, left, line,
          accepted, printed, brimful, restarts>>

RingInit ==
  /\ mem = [i \in Place |-> Old]
  /\ wr \in Index /\ rd \in Index /\ valid = FALSE
  /\ writing = "OFF" /\ text = <<>> /\ at = 1
  /\ reading = "OFF" /\ next = 0 /\ left = 0 /\ line = <<>>
  /\ accepted = <<>> /\ printed = <<>>
  /\ brimful = FALSE /\ restarts = 0
-----------------------------------------------------------------------------
Wrapped(i) == IF i >= Size THEN 0 ELSE i

RoomLeft(w, r) == IF w < r THEN r - w ELSE (Size - w) + r

MutUnread(w, r) == IF r > w THEN Size - r ELSE w - r
Unread(w, r) == IF r > w THEN (Size - r) + w ELSE w - r

writerVars == <<writing, text, at, accepted, restarts>>
readerVars == <<reading, next, left, line, printed>>

(* appLogWrInit: a ring that is marked valid is used as it is.             *)
WrInit ==
  /\ writing = "OFF"
  /\ IF valid THEN writing' = "IDLE" /\ UNCHANGED wr
              ELSE writing' = "INIT" /\ wr' = 0
  /\ UNCHANGED <<mem, rd, valid, text, at, accepted, brimful, restarts, readerVars>>

MarkValid ==
  /\ writing = "INIT"
  /\ writing' = "IDLE"
  /\ valid' = TRUE
  /\ UNCHANGED <<mem, wr, rd, text, at, accepted, brimful, restarts, readerVars>>

(* appLogWrPutString accepts a message of up to one byte less than the     *)
(* room, and the NUL takes that byte.                                      *)
MutFits(t) == Len(t) <= RoomLeft(Wrapped(wr), Wrapped(rd))
Fits(t) == Len(t) <= RoomLeft(Wrapped(wr), Wrapped(rd)) - 1

PutString(t) ==
  /\ writing = "IDLE"
  /\ Len(accepted) < MaxMsg
  /\ Fits(t)
  /\ writing' = "COPY"
  /\ text' = t /\ at' = 1
  /\ UNCHANGED <<mem, wr, rd, valid, accepted, brimful, restarts, readerVars>>

Put(b) == mem' = [mem EXCEPT ![(wr + at - 1) % Size] = b]

CopyByte ==
  /\ writing = "COPY"
  /\ IF at <= Len(text)
     THEN /\ Put([msg |-> Len(accepted) + 1, at |-> at, eol |-> text[at] = "eol"])
          /\ UNCHANGED writing
     ELSE Put(Nul) /\ writing' = "PUBLISH"
  /\ at' = at + 1
  /\ UNCHANGED <<wr, rd, valid, text, accepted, brimful, restarts, readerVars>>

MutPublished == (wr + Len(text)) % Size
Published == (wr + Len(text) + 1) % Size

Publish ==
  /\ writing = "PUBLISH"
  /\ writing' = "IDLE"
  /\ wr' = Published
  /\ accepted' = Append(accepted, text)
  /\ brimful' = (brimful \/ Published = Wrapped(rd))
  /\ UNCHANGED <<mem, rd, valid, text, at, restarts, readerVars>>

(* The core that prints starts again, in the middle of a message or not.   *)
RestartWriter ==
  /\ writing # "OFF"
  /\ restarts < MaxRestart
  /\ restarts' = restarts + 1
  /\ writing' = "OFF"
  /\ UNCHANGED <<mem, wr, rd, valid, text, at, accepted, brimful, readerVars>>

Writer == WrInit \/ MarkValid \/ (\E t \in Text : PutString(t)) \/ CopyByte \/ Publish
-----------------------------------------------------------------------------
(* appLogRdInit.                                                           *)
RdInit ==
  /\ reading = "OFF"
  /\ reading' = "IDLE"
  /\ rd' = 0
  /\ UNCHANGED <<mem, wr, valid, brimful, next, left, line, printed, writerVars>>

(* appLogRdGetString looks at the indices once.                            *)
Poll ==
  /\ reading = "IDLE"
  /\ valid
  /\ Unread(wr, rd) > 0
  /\ reading' = "COPY"
  /\ left' = Unread(wr, rd)
  /\ next' = rd
  /\ line' = <<>>
  /\ UNCHANGED <<mem, wr, rd, valid, brimful, printed, writerVars>>

Ends(b) == b = Nul \/ (b # Old /\ b.eol)

TakeByte ==
  /\ reading = "COPY"
  /\ LET b == mem[Wrapped(next)]
     IN  /\ line' = IF Ends(b) THEN line ELSE Append(line, b)
         /\ reading' = IF Ends(b) \/ left = 1 THEN "PRINT" ELSE "COPY"
  /\ next' = Wrapped(next) + 1
  /\ left' = left - 1
  /\ UNCHANGED <<mem, wr, rd, valid, brimful, printed, writerVars>>

(* The index moves, and appLogRdRun prints what is not empty.              *)
PrintLine ==
  /\ reading = "PRINT"
  /\ reading' = "IDLE"
  /\ rd' = next
  /\ printed' = IF line = <<>> THEN printed ELSE Append(printed, line)
  /\ UNCHANGED <<mem, wr, valid, brimful, next, left, line, writerVars>>

Reader == RdInit \/ Poll \/ TakeByte \/ PrintLine

RingNext == Writer \/ RestartWriter \/ Reader

RingSpec == RingInit /\ [][RingNext]_ringVars

(* The reader is a task that polls for ever (appLogRdRun); the core that    *)
(* prints may stop anywhere.                                               *)
FairRingSpec == RingSpec /\ WF_ringVars(Reader)
-----------------------------------------------------------------------------
RingTypeOK ==
  /\ mem \in [Place -> Byte \cup {Nul, Old}]
  /\ wr \in Index /\ rd \in Index /\ next \in Index /\ left \in Index
  /\ valid \in BOOLEAN /\ brimful \in BOOLEAN /\ restarts \in 0..MaxRestart
  /\ writing \in {"OFF", "INIT", "IDLE", "COPY", "PUBLISH"}
  /\ reading \in {"OFF", "IDLE", "COPY", "PRINT"}

(* The lines of the accepted messages: each begins at a place <<message,   *)
(* position>> and goes on to the end of the line or of the message.        *)
Begins == {p \in (1..Len(accepted)) \X (1..Size) :
             /\ p[2] <= Len(accepted[p[1]])
             /\ accepted[p[1]][p[2]] = "char"
             /\ p[2] = 1 \/ accepted[p[1]][p[2] - 1] = "eol"}
Before(p, q) == p[1] < q[1] \/ (p[1] = q[1] /\ p[2] < q[2])
IsLineAt(l, p) ==
  LET msg == accepted[p[1]]
      end == p[2] + Len(l)
  IN  /\ \A k \in 1..Len(l) : l[k] = [msg |-> p[1], at |-> p[2] + k - 1, eol |-> FALSE]
      /\ \A i \in p[2]..(end - 1) : i <= Len(msg) /\ msg[i] = "char"
      /\ end <= Len(msg) => msg[end] = "eol"

(* Unless a message filled the ring to its last byte, what the console     *)
(* shows is what the core printed: whole lines, in order, none twice and   *)
(* none left out, wherever the ring wraps and whenever the core restarts.  *)
PrintedInOrder ==
  ~brimful =>
    /\ \A i \in DOMAIN printed : \E p \in Begins : IsLineAt(printed[i], p)
    /\ \A i, j \in DOMAIN printed : \A p, q \in Begins :
         i < j /\ IsLineAt(printed[i], p) /\ IsLineAt(printed[j], q) => Before(p, q)
    /\ \A i \in DOMAIN printed : \A p, q \in Begins :
         IsLineAt(printed[i], q) /\ Before(p, q) => \E j \in DOMAIN printed : IsLineAt(printed[j], p)

(* Unless a message filled the ring, the two cores never touch one byte:   *)
(* what the writer still has to write lies outside what the reader still   *)
(* has to read.                                                            *)
ToWrite == IF writing = "COPY" THEN {(wr + k - 1) % Size : k \in at..(Len(text) + 1)} ELSE {}
ToRead == IF reading = "COPY" THEN {(next + k) % Size : k \in 0..(left - 1)} ELSE {}

NoByteShared == ~brimful => ToWrite \cap ToRead = {}

(* Indices stay in the ring and the two cores' bytes stay apart.           *)
LogInv == RingTypeOK /\ NoByteShared

(* Every accepted message gets to the console, unless a message fills the  *)
(* ring: the reader's polling never comes to rest with lines left.         *)
AllPrinted ==
  \A n \in 1..MaxMsg :
    (Len(accepted) = n) ~> (brimful \/ Len(printed) >= Cardinality({p \in Begins : p[1] <= n}))
=============================================================================
