------------------------------- MODULE Files -------------------------------
(***************************************************************************)
(* What the streams of the C library promise, without buffers: a stream is *)
(* a file and a position in it.  Characters that were pushed back come     *)
(* before those of the file.  A stream on which the system failed to read  *)
(* or write is broken, and nothing more is promised until it is opened     *)
(* again.                                                                  *)
(***************************************************************************)
EXTENDS Integers, Sequences

CONSTANTS Stream, Char, Zero, EOF, NONE

VARIABLES kind,     \* "closed", "open", or "append": writes go to the end
          content, pos, pushed,
          reading,  \* may a character be pushed back?
          broken,
          ret       \* what the last call returned, if of interest

fileVars == <<kind, content, pos, pushed, reading, broken, ret>>

(* The file d with the characters new from position at on. *)
Overlay(d, at, new) ==
    [i \in 1..(IF at + Len(new) > Len(d) THEN at + Len(new) ELSE Len(d)) |->
        IF i \in at + 1..at + Len(new) THEN new[i - at] ELSE IF i <= Len(d) THEN d[i] ELSE Zero]

Init ==
    /\ kind \in [Stream -> {"closed", "open"}]
    /\ content \in [Stream -> Seq(Char)]
    /\ pos = [s \in Stream |-> 0]
    /\ pushed = [s \in Stream |-> <<>>]
    /\ reading = [s \in Stream |-> FALSE]
    /\ broken = [s \in Stream |-> FALSE]
    /\ ret = NONE

Becomes(s, k, d, n, u) ==
    /\ ~broken[s] /\ ~broken'[s]
    /\ kind'[s] = k /\ pos'[s] = n /\ pushed'[s] = u /\ content'[s] = d

Kept(s) == /\ kind'[s] = kind[s] /\ pos'[s] = pos[s] /\ pushed'[s] = pushed[s]
           /\ broken'[s] = broken[s] /\ content'[s] = content[s]

Same(s) == Kept(s) /\ reading'[s] = reading[s]

(* freopen() ignores the errors of the writes that are still to be done.   *)
Open(s) ==
    /\ kind'[s] \in {"open", "append"}
    /\ pos'[s] = 0 /\ pushed'[s] = <<>> /\ ~broken'[s]
    /\ kind[s] = "closed" /\ ~broken[s] => content'[s] \in {content[s], <<>>}

Close(s) == /\ Becomes(s, "closed", content[s], 0, <<>>)
            /\ kind[s] # "closed"

(* Behind a character that was read there is room to push one back. *)
Get(s) ==
    \/ /\ pushed[s] # <<>> /\ reading'[s]
       /\ ret' = Head(pushed[s])
       /\ Becomes(s, kind[s], content[s], pos[s] + 1, Tail(pushed[s]))
    \/ /\ pushed[s] = <<>> /\ pos[s] < Len(content[s]) /\ reading'[s]
       /\ ret' = content[s][pos[s] + 1]
       /\ Becomes(s, kind[s], content[s], pos[s] + 1, <<>>)
    \/ /\ pushed[s] = <<>> /\ pos[s] >= Len(content[s])
       /\ ret' = EOF
       /\ Becomes(s, kind[s], content[s], pos[s], <<>>)

(* One character at least can be pushed back on a stream that is read. *)
Unget(s) ==
    \/ \E c \in Char : /\ ret' = c /\ reading[s] /\ reading'[s]
                       /\ Becomes(s, kind[s], content[s], pos[s] - 1, <<c>> \o pushed[s])
    \/ (pushed[s] # <<>> \/ ~reading[s]) /\ ret' = EOF /\ Same(s)

Put(s) ==
    LET at == IF kind[s] = "append" THEN Len(content[s]) ELSE pos[s]
    IN  /\ pushed[s] = <<>> /\ ~reading'[s]
        /\ \E c \in Char : Becomes(s, kind[s], Overlay(content[s], at, <<c>>), at + 1, <<>>)

(* A seek that is refused may move the position. *)
Seek(s) ==
    \/ \E n \in 0..Len(content[s]) : ret' = n /\ Becomes(s, kind[s], content[s], n, <<>>)
    \/ ret' = EOF /\ Becomes(s, kind[s], content[s], pos'[s], <<>>)

Tell(s) == ret' = pos[s] /\ Same(s)

Break(s) == broken'[s]

(* A flush of some streams moves nothing, but ends their reading. *)
Flush ==
    /\ ret' = NONE \/ \E s \in Stream : Break(s)
    /\ \A s \in Stream : Break(s) \/ (Kept(s) /\ (reading'[s] => reading[s]))

Next ==
    \/ \E s \in Stream :
        /\ \A t \in Stream \ {s} : Break(t) \/ Same(t)
        /\ \/ Break(s)
           \/ Open(s) \/ Close(s) \/ Get(s) \/ Unget(s) \/ Put(s) \/ Seek(s) \/ Tell(s)
    \/ Flush

Spec == Init /\ [][Next]_fileVars
=============================================================================
