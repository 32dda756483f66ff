------------------------------- MODULE Stdio -------------------------------
(***************************************************************************)
(* lang/cem/libcc.ansi/sys/stdio and sys/exit: buffered streams, atexit()  *)
(* and exit().                                                             *)
(*                                                                         *)
(* A stream f[s] has its own file.  data is what of its buffer is of use:  *)
(* the characters that are still to be read, or those that were written    *)
(* and are not in the file; at is _ptr - _buf.  disk and off are the file  *)
(* and the offset in it as the system has them.                            *)
(*                                                                         *)
(* The programs keep to the rules of the standard: a stream is read only   *)
(* if it is open for reading and not being written, and written only if it *)
(* is not being read, or was read up to the end of the file; setvbuf comes *)
(* before all else.  They stay away from the places where the library      *)
(* deviates from the standard, each marked where its guard is.             *)
(*                                                                         *)
(* Two calls store a character outside every buffer, by a _ptr that was    *)
(* never set or into a buffer of size 0.  What such a program does next is *)
(* not modelled: the phase is "wild" and nothing more happens.             *)
(***************************************************************************)
EXTENDS Integers, Sequences, SequencesExt, FiniteSets

CONSTANTS Stream,
          Tty,        \* the streams that are terminals; one may be stdout
          Char, NL,   \* NL: '\n'
          Stale,      \* what is in a buffer where nothing was stored
          BUFSIZ,
          Sizes,      \* the sizes of the buffers given to setvbuf
          NEXITS,
          MaxLen,     \* bounds on the lengths of the files
          MaxFaults   \* bound on the number of failing system calls

EOF == -1
NONE == -2

ASSUME StdioAssumption ==
    /\ Tty \subseteq Stream /\ NL \in Char /\ Char \subseteq Nat /\ Stale \in Nat
    /\ BUFSIZ \in Nat \ {0} /\ Sizes \subseteq Nat /\ NEXITS \in Nat /\ MaxLen \in [Stream -> Nat] /\ MaxFaults \in Nat

VARIABLES f,
          functab,     \* the functions to call: "cleanup" of stdio, or "user"
          registered,  \* of __register_stdio_cleanup
          phase,       \* "run", "exit" (in exit), "handler", "done" or "wild"
          late,        \* the streams written when no cleanup was to come
          ret,         \* what the last call returned, if of interest
          faults,      \* the number of system calls that may still fail
          env          \* what access to files there is, and how many functions of its
                       \* own does the program still give to atexit()

vars == <<f, functab, registered, phase, late, ret, faults, env>>

Flags == {"READ", "WRITE", "NBF", "LBF", "EOF", "ERR", "READING", "WRITING", "APPEND"}
File == Seq(Char \cup {Stale})

TypeOK ==
    /\ f \in [Stream -> [open: BOOLEAN, flags: SUBSET Flags, count: Int, buf: BOOLEAN,
                         bufsiz: Nat, data: File, at: Nat, pushed: Nat,
                         disk: File, off: Nat, fdread: BOOLEAN, broken: BOOLEAN]]
    /\ functab \in Seq({"cleanup", "user"}) /\ Len(functab) <= NEXITS
    /\ registered \in BOOLEAN
    /\ phase \in {"run", "exit", "handler", "done", "wild"}
    /\ late \subseteq Stream
    /\ ret \in Int
    /\ faults \in 0..MaxFaults
    /\ env \in [access: SUBSET {"READ", "WRITE"}, users: Nat]

Closed(r) == [r EXCEPT !.open = FALSE, !.flags = {}, !.count = 0, !.buf = FALSE, !.bufsiz = 0,
                       !.data = <<>>, !.at = 0, !.pushed = 0, !.off = 0, !.fdread = TRUE]

(* data.c: stdout, which may be closed, and files that are not yet open.   *)
Init ==
    /\ \E T \in SUBSET Tty, old \in [Stream -> SeqOf(Char, 1)] :
        f = [s \in Stream |->
             [open |-> s \in T, flags |-> IF s \in T THEN {"WRITE"} ELSE {}, count |-> 0,
              buf |-> FALSE, bufsiz |-> 0, data |-> <<>>, at |-> 0, pushed |-> 0,
              disk |-> IF s \in Tty THEN <<>> ELSE old[s], off |-> 0,
              fdread |-> TRUE, broken |-> FALSE]]
    /\ env \in [access: SUBSET {"READ", "WRITE"}, users: 0..NEXITS]
    /\ functab = <<>> /\ registered = FALSE
    /\ phase = "run"
    /\ late = {}
    /\ ret = NONE
    /\ faults \in 0..MaxFaults
-----------------------------------------------------------------------------
Overlay(d, at, new) ==
    [i \in 1..(IF at + Len(new) > Len(d) THEN at + Len(new) ELSE Len(d)) |->
        IF i \in at + 1..at + Len(new) THEN new[i - at] ELSE IF i <= Len(d) THEN d[i] ELSE Stale]

Has(r, x) == x \in r.flags
Set(r, x) == [r EXCEPT !.flags = @ \cup {x}]
MayFail == faults > 0

(* Where lseek(fd, 0, SEEK_END) or the offset is; a terminal only grows.   *)
Place(r) == IF Has(r, "APPEND") THEN Len(r.disk) ELSE r.off

(* write(), after an lseek() to the end in append mode.  The system may    *)
(* write only the first n characters, or the lseek() fails (n = -1): the   *)
(* rest is lost, and the stream has _IOERR.                                *)
WrittenSilent(r, bytes, n) ==
    IF n < 0 THEN [r EXCEPT !.broken = TRUE]
    ELSE [r EXCEPT !.disk = Overlay(@, Place(r), SubSeq(bytes, 1, n)), !.off = Place(r) + n,
                   !.broken = @ \/ n # Len(bytes)]
Written(r, bytes, n) ==
    LET r1 == [r EXCEPT !.disk = Overlay(@, Place(r), SubSeq(bytes, 1, n)), !.off = Place(r) + n]
        r2 == IF n < 0 THEN r ELSE r1
    IN  IF n = Len(bytes) THEN r2 ELSE [Set(r2, "ERR") EXCEPT !.broken = TRUE]

Results(r, bytes) ==
    {Len(bytes)} \cup IF MayFail THEN {n \in -1..Len(bytes) : n = -1 => Has(r, "APPEND")} ELSE {}

(* fflush of a stream; the results of its write, or none if it has none.   *)
Writes(r) == r.open /\ r.buf /\ Has(r, "WRITING") /\ ~Has(r, "READING") /\ ~Has(r, "NBF") /\ r.at > 0
Pending(r) == [i \in 1..r.at |-> IF i <= Len(r.data) THEN r.data[i] ELSE Stale]
FlushResults(r) == IF Writes(r) THEN Results(r, Pending(r)) ELSE {0}

FlushReading(r) ==
    LET adjust == IF Has(r, "NBF") THEN 0 ELSE r.count
    IN  [r EXCEPT !.count = 0, !.data = <<>>, !.at = 0, !.pushed = 0,
                  !.off = IF @ + adjust < 0 THEN @ ELSE @ + adjust,
                  !.flags = IF Has(r, "WRITE") THEN @ \ {"READING", "WRITING"} ELSE @]

FlushWriting(r, n) ==
    LET r1 == [r EXCEPT !.flags = IF Has(r, "READ") THEN @ \ {"WRITING"} ELSE @,
                        !.data = <<>>, !.at = 0]
        r2 == Written(r1, Pending(r), n)
    IN  IF r.at = 0 THEN r1 ELSE IF n < 0 THEN r2 ELSE [r2 EXCEPT !.count = 0]

fflush(r, n) ==
    CASE ~r.buf \/ r.flags \cap {"READING", "WRITING"} = {} -> r
      [] r.buf /\ Has(r, "READING") -> FlushReading(r)
      [] r.buf /\ ~Has(r, "READING") /\ Has(r, "WRITING") ->
            IF Has(r, "NBF") THEN r ELSE FlushWriting(r, n)
-----------------------------------------------------------------------------
(* What a program sees of a file. *)
content == [s \in Stream |->
    IF Has(f[s], "WRITING") THEN Overlay(f[s].disk, Place(f[s]), f[s].data) ELSE f[s].disk]
pos == [s \in Stream |->
    CASE Has(f[s], "READING") -> f[s].off - Len(f[s].data)
      [] ~Has(f[s], "READING") /\ f[s].data # <<>> -> Place(f[s]) + Len(f[s].data)
      [] ~Has(f[s], "READING") /\ f[s].data = <<>> -> f[s].off]

Running == phase \in {"run", "handler"}
Call(s) == Running /\ f[s].open
NoExit == UNCHANGED <<functab, registered, phase, late, env>>
Fails(n) == faults' = faults - n /\ faults' >= 0
Bool(b) == IF b THEN 1 ELSE 0

(* One stream changes. *)
Change(s, r) == f' = [f EXCEPT ![s] = r]

Mode == [how: {"r", "w", "a"}, plus: BOOLEAN]
Access(m) == (IF m.how = "r" \/ m.plus THEN {"READ"} ELSE {})
             \cup (IF m.how # "r" \/ m.plus THEN {"WRITE"} ELSE {})
             \cup (IF m.how = "a" THEN {"APPEND"} ELSE {})
Granted(m) == Access(m) \ {"APPEND"} \subseteq env.access
Contents(r, m) == IF m.how = "w" THEN <<>> ELSE r.disk

fopen(s, m) ==
    /\ Running /\ ~f[s].open /\ s \notin Tty /\ Granted(m)
    /\ Change(s, [Closed(f[s]) EXCEPT
            !.open = TRUE, !.disk = Contents(f[s], m), !.broken = FALSE,
            !.flags = Access(m) \cup IF m.plus THEN {}
                                     ELSE IF m.how = "r" THEN {"READING"} ELSE {"WRITING"}])
    /\ ret' = NONE /\ NoExit /\ UNCHANGED faults

(* The errors of fflush() are ignored.  In mode "w+" the descriptor is the *)
(* one of creat(), which cannot be read.                                   *)
freopen(s, m, ok) ==
    /\ Call(s) /\ s \notin Tty /\ (ok => Granted(m))
    /\ \E n \in FlushResults(f[s]) :
        LET r == fflush(f[s], n)
        IN  /\ Change(s, IF ok THEN [r EXCEPT !.disk = Contents(r, m), !.off = 0, !.count = 0,
                                              !.flags = (@ \cap {"NBF", "LBF"}) \cup Access(m),
                                              !.fdread = ~(m.how = "w" /\ m.plus), !.broken = f[s].broken]
                         ELSE Closed(r))
            /\ Fails(Bool(Writes(f[s]) /\ n # f[s].at))
            /\ ret' = IF ok THEN NONE ELSE EOF
    /\ NoExit

fclose(s) ==
    /\ Call(s)
    /\ \E n \in FlushResults(f[s]) :
        /\ Change(s, Closed(fflush(f[s], n)))
        /\ Fails(Bool(Writes(f[s]) /\ n # f[s].at))
        /\ ret' = IF Writes(f[s]) /\ n # f[s].at THEN EOF ELSE NONE
    /\ NoExit
-----------------------------------------------------------------------------
(* All streams of S are flushed. *)
FlushChoices(S) ==
    LET results(s) == IF s \in S THEN FlushResults(f[s]) ELSE {0}
    IN  {n \in [Stream -> UNION {results(s) : s \in Stream}] : \A s \in Stream : n[s] \in results(s)}

FlushAll(S) ==
    \E n \in FlushChoices(S) :
        /\ f' = [s \in Stream |-> IF s \in S THEN fflush(f[s], n[s]) ELSE f[s]]
        /\ Fails(Cardinality({s \in S : Writes(f[s]) /\ n[s] # f[s].at}))

Opened == {s \in Stream : f[s].open}

(* fflush() of one stream, and fflush(NULL) of all.  What was read ahead is *)
(* misplaced by a flush, so nothing is.                                     *)
Flush(S) ==
    /\ Running
    /\ S = Opened \/ \E s \in Opened : S = {s}
    /\ \A s \in S : Has(f[s], "READING") => f[s].data = <<>>
    /\ FlushAll(S)
    /\ ret' = IF faults' = faults THEN NONE ELSE EOF
    /\ NoExit

(* The macro getc, where it finds a character in the buffer. *)
getc(s) ==
    /\ Call(s) /\ Has(f[s], "READ") /\ ~Has(f[s], "WRITING") /\ f[s].count > 0
    /\ ret' = IF f[s].data = <<>> THEN Stale ELSE Head(f[s].data)
    /\ Change(s, [f[s] EXCEPT !.data = IF @ = <<>> THEN @ ELSE Tail(@), !.count = @ - 1, !.at = @ + 1,
                              !.pushed = IF @ = 0 THEN 0 ELSE @ - 1])
    /\ NoExit /\ UNCHANGED faults

(* The buffer of a stream that is to be read: malloc may fail, and a       *)
(* stream without buffer has one character of ch.                          *)
ReadBuffer(r, ok) ==
    LET r1 == CASE ~r.buf /\ ~Has(r, "NBF") /\ ok -> [r EXCEPT !.buf = TRUE, !.bufsiz = BUFSIZ]
                [] ~r.buf /\ ~Has(r, "NBF") /\ ~ok -> Set(r, "NBF")
                [] r.buf \/ Has(r, "NBF") -> r
    IN  IF r1.buf THEN r1 ELSE [r1 EXCEPT !.buf = TRUE, !.bufsiz = 1]

(* read() of what there is, or not even that (~ok). *)
Read(r, ok) ==
    LET end == IF r.off + r.bufsiz < Len(r.disk) THEN r.off + r.bufsiz ELSE Len(r.disk)
        there == SubSeq(r.disk, r.off + 1, end)
        r1 == [r EXCEPT !.at = 0, !.data = <<>>, !.count = 0]
    IN  CASE ~ok -> [Set(r1, "ERR") EXCEPT !.count = -1, !.broken = TRUE]
          [] ok /\ there = <<>> -> Set(r1, "EOF")
          [] ok /\ there # <<>> -> [r1 EXCEPT !.at = 1, !.data = Tail(there),
                                              !.count = Len(there) - 1, !.off = @ + Len(there)]

LineBuffered == {s \in Opened : Has(f[s], "LBF") /\ Has(f[s], "WRITING")}

fillbuf(s) ==
    /\ Call(s) /\ Has(f[s], "READ") /\ ~Has(f[s], "WRITING") /\ f[s].count <= 0
    /\ \/ /\ Has(f[s], "EOF")
          /\ Change(s, [f[s] EXCEPT !.count = 0])
          /\ ret' = EOF /\ UNCHANGED faults
       \/ /\ ~Has(f[s], "EOF")
          /\ \E n \in FlushChoices(LineBuffered), mem, ok \in BOOLEAN :
                LET r == Read(ReadBuffer(Set(f[s], "READING"), mem), ok)
                IN  /\ ok => f[s].fdread
                    /\ f' = [t \in Stream |-> CASE t = s -> r
                                                [] t \in LineBuffered -> fflush(f[t], n[t])
                                                [] OTHER -> f[t]]
                    /\ ret' = IF r.at = 0 THEN EOF ELSE r.disk[f[s].off + 1]
                    /\ Fails(Bool(~mem) + Bool(~ok /\ f[s].fdread)
                             + Cardinality({t \in LineBuffered : Writes(f[t]) /\ n[t] # f[t].at}))
    /\ NoExit

(* One character is pushed back, or more if the buffer has room.  A stream *)
(* for reading has _IOREADING from the start but no buffer before the      *)
(* first read: what is pushed back then goes where _ptr happens to point,  *)
(* or to address 0.  One that may be written has _IOREADING only between a *)
(* read and the next flush or seek.                                        *)
Refused(r) == ~Has(r, "READING") \/ (r.buf /\ r.at = 0 /\ r.count # 0)
NoPlace(r) == ~r.buf \/ r.bufsiz = 0

ungetc(s, c) ==
    /\ Call(s)
    /\ \/ Refused(f[s]) /\ ret' = EOF /\ UNCHANGED <<f, phase>>
       \/ ~Refused(f[s]) /\ NoPlace(f[s]) /\ phase' = "wild" /\ ret' = NONE /\ UNCHANGED f
       \/ /\ ~Refused(f[s]) /\ ~NoPlace(f[s])
          /\ ret' = c /\ UNCHANGED phase
          /\ Change(s, [f[s] EXCEPT !.data = <<c>> \o @, !.count = @ + 1, !.pushed = @ + 1,
                                    !.at = IF @ = 0 THEN 0 ELSE @ - 1])
    /\ UNCHANGED <<functab, registered, late, env, faults>>
-----------------------------------------------------------------------------
(* __register_stdio_cleanup(): whether atexit() had room is not looked at. *)
Register ==
    /\ registered' = TRUE
    /\ functab' = IF registered \/ Len(functab) >= NEXITS THEN functab
                  ELSE Append(functab, "cleanup")

Unlisted(s) == late' = IF registered' /\ ~Contains(functab', "cleanup") THEN late \cup {s} ELSE late

(* A stream that was read up to the end of its file may be written next,   *)
(* unless a character put back at the end is still in the buffer.          *)
MayWrite(s) ==
    /\ Call(s) /\ Has(f[s], "WRITE")
    /\ Has(f[s], "READING") => Has(f[s], "EOF") /\ f[s].data = <<>> /\ f[s].at = 0
    /\ (IF Has(f[s], "APPEND") THEN Len(content[s]) ELSE pos[s]) < MaxLen[s]

(* The macro putc, where the buffer has room. *)
putc(s, c) ==
    /\ MayWrite(s) /\ f[s].count > 0
    /\ Change(s, [f[s] EXCEPT !.data = Append(@, c), !.count = @ - 1, !.at = @ + 1])
    /\ ret' = NONE /\ UNCHANGED <<functab, registered, phase, faults, env>>
    /\ Unlisted(s)

(* The buffer of a stream that is to be written; stdout gets one for lines *)
(* if it is a terminal.                                                    *)
WriteBufferWhole(s, r, ok) ==
    IF Has(r, "NBF") \/ r.buf THEN r
    ELSE IF ~ok THEN Set(r, "NBF")
    ELSE [r EXCEPT !.buf = TRUE, !.bufsiz = BUFSIZ, !.at = 0, !.count = BUFSIZ]
WriteBuffer(s, r, ok) ==
    CASE Has(r, "NBF") \/ r.buf -> r
      [] ~Has(r, "NBF") /\ ~r.buf /\ ~ok -> Set(r, "NBF")
      [] ~Has(r, "NBF") /\ ~r.buf /\ ok ->
            LET r1 == [r EXCEPT !.buf = TRUE, !.bufsiz = BUFSIZ, !.at = 0]
            IN  IF s \in Tty THEN [Set(r1, "LBF") EXCEPT !.count = -1]
                ELSE [r1 EXCEPT !.count = IF Has(r, "LBF") THEN -1 ELSE BUFSIZ - 1]

FlushLine(r) == [r EXCEPT !.data = <<>>, !.at = 0, !.count = 0]

(* What __flushbuf writes, and the stream around the write. *)
ToWrite(r, c) ==
    CASE Has(r, "NBF") -> <<c>>
      [] ~Has(r, "NBF") /\ Has(r, "LBF") ->
            IF c = NL \/ r.count = -r.bufsiz
            THEN [i \in 1..-r.count |-> IF i <= r.at THEN Pending(r)[i] ELSE IF i = r.at + 1 THEN c ELSE Stale]
            ELSE <<>>
      [] ~Has(r, "NBF") /\ ~Has(r, "LBF") -> Pending(r)

Stored(r, c) ==
    CASE Has(r, "NBF") -> [r EXCEPT !.count = 0]
      [] ~Has(r, "NBF") /\ Has(r, "LBF") ->
            IF c = NL \/ r.count = -r.bufsiz THEN FlushLine(r)
            ELSE [r EXCEPT !.data = Append(Pending(r), c), !.at = @ + 1]
      [] ~Has(r, "NBF") /\ ~Has(r, "LBF") ->
            [r EXCEPT !.data = <<c>>, !.at = 1, !.count = r.bufsiz - 1]

(* Where lseek() fails the character is not even stored: the full buffer   *)
(* is begun anew with the one that was first.                              *)
Restored(r, c, n) ==
    IF n < 0 /\ ~Has(r, "NBF") /\ ~Has(r, "LBF")
    THEN [Stored(r, c) EXCEPT !.data = SubSeq(Pending(r), 1, 1)] ELSE Stored(r, c)

flushbuf(s, c) ==
    /\ MayWrite(s) /\ f[s].count <= 0
    /\ Register /\ Unlisted(s)
    /\ \E ok \in BOOLEAN :
        LET r0 == [f[s] EXCEPT !.count = @ - 1, !.flags = (@ \ {"READING"}) \cup {"WRITING"}]
            r == WriteBuffer(s, r0, ok)
            bytes == ToWrite(r, c)
        IN  \E n \in IF bytes = <<>> THEN {0} ELSE Results(r, bytes) :
                /\ Change(s, IF bytes = <<>> THEN Stored(r, c) ELSE Written(Restored(r, c, n), bytes, n))
                /\ ret' = IF n = Len(bytes) THEN NONE ELSE EOF
                /\ Fails(Bool(~ok) + Bool(n # Len(bytes)))
                /\ phase' = IF ~Has(r, "NBF") /\ NoPlace(r) THEN "wild" ELSE phase
    /\ UNCHANGED env

(* An unbuffered stream is not given a buffer: it would read ahead, which   *)
(* neither fseek nor fflush knows.  A buffer of size 0 is refused, but the  *)
(* stream has it all the same, and is broken.                               *)
setvbuf(s, mode, own, size, ok) ==
    /\ Call(s) /\ ~f[s].buf /\ ~Has(f[s], "NBF")
    /\ ~(mode = "NBF" /\ own)
    /\ LET has == own \/ (mode # "NBF" /\ size > 0 /\ ok)
       IN  /\ Change(s, [f[s] EXCEPT !.flags = (@ \ {"LBF"}) \cup ({mode} \ {"FBF"}),
                                     !.buf = has, !.bufsiz = IF has THEN size ELSE 1,
                                     !.count = 0, !.at = 0, !.broken = @ \/ (own /\ size = 0)])
           /\ ret' = IF (has /\ size > 0) \/ mode = "NBF" THEN NONE ELSE EOF
    /\ ~ok => ~own /\ mode # "NBF" /\ size > 0
    /\ Fails(Bool(~ok))
    /\ Register /\ UNCHANGED <<phase, late, env>>
-----------------------------------------------------------------------------
(* lseek() starts behind what is in the buffer. *)
AdjustNone(r, whence) == 0
Adjust(r, whence) ==
    IF Has(r, "READING") /\ whence = "CUR" /\ r.buf /\ ~Has(r, "NBF") THEN r.count ELSE 0

(* Not from a place an unbuffered stream has a character put back at: it    *)
(* would be one off.                                                        *)
fseek(s, d, whence) ==
    LET r == [f[s] EXCEPT !.flags = @ \ {"EOF", "ERR"}]
        base(x, here) == CASE whence = "SET" -> 0 [] whence = "CUR" -> here [] whence = "END" -> Len(x)
        want == base(content[s], pos[s]) + d
    IN  /\ Call(s) /\ s \notin Tty /\ want <= Len(content[s])
        /\ ~(whence = "CUR" /\ Has(r, "NBF") /\ r.count > 0)
        /\ \E n \in FlushResults(r) :
            LET r1 == IF Has(r, "READING") THEN [r EXCEPT !.count = 0]
                      ELSE IF Has(r, "WRITING") THEN fflush(r, n) ELSE r
                to == base(r1.disk, r1.off) + d - Adjust(r, whence)
            IN  /\ Change(s, [r1 EXCEPT !.data = <<>>, !.at = 0, !.pushed = 0,
                                !.off = IF to < 0 THEN @ ELSE to,
                                !.flags = IF {"READ", "WRITE"} \subseteq @
                                          THEN @ \ {"READING", "WRITING"} ELSE @])
                /\ ret' = IF to < 0 THEN EOF ELSE want
                /\ Fails(Bool(Writes(r) /\ n # r.at))
        /\ NoExit

(* Not with output pending on a stream that appends: it goes to the end of  *)
(* the file, wherever the descriptor is.                                    *)
ftell(s) ==
    LET adjust == IF Has(f[s], "READING") THEN -f[s].count
                  ELSE IF Has(f[s], "WRITING") /\ f[s].buf /\ ~Has(f[s], "NBF") THEN f[s].at ELSE 0
    IN  /\ Call(s) /\ s \notin Tty
        /\ ~(Has(f[s], "APPEND") /\ f[s].data # <<>>)
        /\ ret' = f[s].off + adjust
        /\ NoExit /\ UNCHANGED <<f, faults>>

clearerr(s) ==
    /\ Call(s)
    /\ Change(s, [f[s] EXCEPT !.flags = @ \ {"EOF", "ERR"}])
    /\ ret' = NONE /\ NoExit /\ UNCHANGED faults
-----------------------------------------------------------------------------
(* A call with a full table returns 1 and does nothing else. *)
atexit ==
    /\ Running /\ Len(functab) < NEXITS
    /\ env.users > 0 /\ env' = [env EXCEPT !.users = @ - 1]
    /\ functab' = Append(functab, "user")
    /\ ret' = NONE /\ UNCHANGED <<f, registered, phase, late, faults>>

(* exit() calls the functions of the table, the last one first, and then   *)
(* _exit().                                                                *)
Exiting(tab) == phase' = IF tab = <<>> THEN "done" ELSE "exit"

exit ==
    /\ phase = "run" /\ Exiting(functab)
    /\ ret' = NONE /\ UNCHANGED <<f, functab, registered, late, faults, env>>

CleanupLines == FlushAll({s \in Opened : Has(f[s], "LBF")})
cleanup == FlushAll({s \in Opened : Has(f[s], "WRITING")})

CallLast ==
    /\ phase = "exit" /\ functab # <<>>
    /\ functab' = Front(functab)
    /\ \/ /\ Last(functab) = "user"
          /\ phase' = "handler" /\ UNCHANGED <<f, faults>>
       \/ /\ Last(functab) = "cleanup"
          /\ cleanup
          /\ Exiting(functab')
    /\ ret' = NONE /\ UNCHANGED <<registered, late, env>>

HandlerReturns ==
    /\ phase = "handler" /\ Exiting(functab)
    /\ ret' = NONE /\ UNCHANGED <<f, functab, registered, late, faults, env>>

Next ==
    \/ \E s \in Stream :
        \/ \E m \in Mode : fopen(s, m) \/ freopen(s, m, TRUE)
        \/ freopen(s, [how |-> "r", plus |-> FALSE], FALSE)
        \/ fclose(s) \/ getc(s) \/ fillbuf(s) \/ ftell(s) \/ clearerr(s)
        \/ \E c \in Char : ungetc(s, c) \/ putc(s, c) \/ flushbuf(s, c)
        \/ \E mode \in {"FBF", "LBF", "NBF"}, own, ok \in BOOLEAN, size \in Sizes :
               setvbuf(s, mode, own, size, ok)
        \/ \E d \in -1..1, whence \in {"SET", "CUR", "END"} : fseek(s, d, whence)
    \/ \E S \in SUBSET Stream : Flush(S)
    \/ atexit \/ exit \/ CallLast \/ HandlerReturns

Spec == Init /\ [][Next]_vars
-----------------------------------------------------------------------------
(* The next character that the macros putc and getc or the library store   *)
(* or take is in the buffer: _ptr and _count stay within _bufsiz, also     *)
(* after errors.                                                           *)
InBuffer ==
    \A s \in Stream : f[s].buf => f[s].at + (IF f[s].count > 0 THEN f[s].count ELSE 0) <= f[s].bufsiz

(* A line of a line-buffered stream is written as soon as it is complete.  *)
LinesOut ==
    \A s \in Stream : Has(f[s], "LBF") /\ Has(f[s], "WRITING") => NL \notin ToSet(f[s].data)

(* Where a store outside of the buffers can come from: ungetc() before the *)
(* first read from a stream that is only read, and any use of a stream     *)
(* that has kept the buffer of size 0 setvbuf() refused.                   *)
Hole(s) == (Has(f[s], "READING") /\ ~f[s].buf) \/ (f[s].buf /\ f[s].bufsiz = 0)

(* Whatever calls came before, in whatever order and with whatever errors, *)
(* the record of a stream is one the macros can work on: it has its types, *)
(* they stay in the buffer, and no complete line is left behind, until a   *)
(* call stores outside of every buffer.  That happens only in a program    *)
(* with a stream that has such a hole.                                     *)
StreamOK ==
    /\ TypeOK
    /\ IF phase = "wild" THEN \E s \in Stream : Hole(s) ELSE InBuffer /\ LinesOut

(* After exit() everything is in the files, but for what could not be      *)
(* written, and for what was written when cleanup() was not to be called   *)
(* any more: in a function that exit() calls after cleanup(), or because   *)
(* the table was full when cleanup() was to be registered.                 *)
AllOut ==
    phase = "done" =>
        \A s \in Stream : f[s].open /\ ~f[s].broken /\ s \notin late => content[s] = f[s].disk

(* If output or input is lost the program can see it: the call returns EOF *)
(* or ferror() is true.                                                    *)
NoSilentLoss ==
    [][\A s \in Stream : f'[s].broken /\ ~f[s].broken => Has(f'[s], "ERR") \/ ret' = EOF]_vars

F == INSTANCE Files WITH
        Char <- Char \cup {Stale}, Zero <- Stale,
        kind <- [s \in Stream |-> IF ~f[s].open THEN "closed"
                                  ELSE IF Has(f[s], "APPEND") THEN "append" ELSE "open"],
        pushed <- [s \in Stream |-> SubSeq(f[s].data, 1, f[s].pushed)],
        reading <- [s \in Stream |-> Has(f[s], "READING")],
        broken <- [s \in Stream |-> f[s].broken]

(* The buffered streams implement the files of Files: every character goes *)
(* to and comes from where the program expects it, however the stream is   *)
(* buffered, for programs that stay away from the places marked above and  *)
(* up to the first store outside of the buffers.  ungetc() is refused only *)
(* if a character is already put back or the stream is not being read.     *)
ImplementsFiles == F!Spec
=============================================================================
