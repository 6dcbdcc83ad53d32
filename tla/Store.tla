------------------------------- MODULE Store -------------------------------
(***************************************************************************)
(* What reading and writing promise: a regular file is a row of bytes, an  *)
(* open file a position in it.  A request moves its bytes in order, some   *)
(* at a time, between the caller's buffer and the file from the position   *)
(* on, and nothing else; then the caller is told how many they were.       *)
(*                                                                         *)
(* Nothing is promised of a request that goes beyond the bytes a file has  *)
(* (read) or may have (write), except that other files keep their sizes    *)
(* and other open files their positions.                                   *)
(***************************************************************************)
EXTENDS Integers, Sequences

CONSTANTS
    File, Fd, FileOf,  \* the files, the open files, and of which file each is
    RdWr,              \* those opened with O_RDWR
    Capacity,          \* the bytes a file may have
    Byte

VARIABLES
    content, size,     \* of each file
    pos,               \* of each open file
    call,              \* the request being served, or NoCall
    got,               \* what the last read has delivered
    answer             \* what the last request returned

vars == <<content, size, pos, call, got, answer>>

NoCall == [op |-> "none"]

Inside(c) ==
    /\ c.from + c.len <= Capacity
    /\ c.op = "READ" => c.from + c.len <= size[FileOf[c.fd]]

Init ==
    /\ content \in [File -> [0 .. Capacity - 1 -> Byte]]
    /\ size \in [File -> 0 .. Capacity]
    /\ pos = [fd \in Fd |-> 0]
    /\ call = NoCall
    /\ got = <<>> /\ answer = 0

Refuse ==
    /\ call = NoCall /\ answer' = -1
    /\ UNCHANGED <<content, size, pos, call, got>>

Begin ==
    /\ call = NoCall /\ got' = <<>>
    /\ call'.op \in {"READ", "WRITE"}
    /\ call'.fd \in RdWr /\ call'.from = pos[call'.fd] /\ call'.done = 0
    /\ UNCHANGED <<content, size, pos, answer>>

\* The next n bytes.
Transfer(n) ==
    LET f == FileOf[call.fd]
        at(k) == call.from + call.done + k
    IN
    /\ call # NoCall /\ Inside(call) /\ call.done + n <= call.len
    /\ call' = [call EXCEPT !.done = @ + n]
    /\ pos' = [pos EXCEPT ![call.fd] = @ + n]
    /\ IF call.op = "READ"
       THEN /\ got' = got \o [k \in 1 .. n |-> content[f][at(k - 1)]]
            /\ UNCHANGED content
       ELSE /\ content' = [content EXCEPT ![f] = [b \in 0 .. Capacity - 1 |->
                 IF b \in at(0) .. at(n - 1) THEN call.data[b - call.from + 1] ELSE @[b]]]
            /\ UNCHANGED got
    /\ UNCHANGED <<size, answer>>

\* All of it has been moved, and a file that is now longer says so.
Return ==
    LET f == FileOf[call.fd] IN
    /\ call # NoCall /\ Inside(call) /\ call.done = call.len
    /\ call' = NoCall /\ answer' = call.len
    /\ size' = [size EXCEPT ![f] = IF pos[call.fd] > @ THEN pos[call.fd] ELSE @]
    /\ UNCHANGED <<content, pos, got>>

\* A step of a request that goes beyond.
Beyond ==
    /\ call # NoCall /\ ~ Inside(call)
    /\ call' = NoCall \/ (call'.fd = call.fd /\ ~ Inside(call)')
    /\ \A f \in File \ {FileOf[call.fd]} : size'[f] = size[f]
    /\ \A fd \in Fd \ {call.fd} : pos'[fd] = pos[fd]

Next ==
    \/ Refuse \/ Begin \/ Return \/ Beyond
    \/ call # NoCall /\ \E n \in 0 .. call.len : Transfer(n)

Spec == Init /\ [][Next]_vars
=============================================================================
