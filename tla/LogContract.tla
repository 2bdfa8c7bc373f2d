---------------------------- MODULE LogContract ----------------------------
(***************************************************************************)
(* What the client of a container's log may rely on, in terms of what it   *)
(* and the body of its answer can see.  ContainerLog is the program that   *)
(* keeps it.  Lines are numbered in the order they reach the file.         *)
(***************************************************************************)
EXTENDS Integers, Sequences, Functions

CONSTANTS
    Followers, \* log requests
    Garbled,   \* the lines that are not UTF-8
    LimitOf    \* request -> how many lines of the file limitBytes leaves it

VARIABLES
    file,    \* lines in the file
    pc,      \* where each request is
    queue,   \* the items its forwarder has sent and the body has not yet taken
    away,    \* the requests whose client has gone and whose body is dropped
    lagged,  \* whether its receiver was ever told that it lagged
    first,   \* the first line it is to be sent, as --tail has it
    upto,    \* the lines in the file when it was read
    seen     \* the lines its client has received

(***************************************************************************)
(* The part of the file that a request gets: none of it when one line of   *)
(* it is garbled, and no more than its limit.                              *)
(***************************************************************************)
Intact(n) == \A x \in 1 .. n : x \notin Garbled
Kept(f, a, b) ==
    IF ~Intact(b) THEN 0 ELSE IF b - a + 1 <= LimitOf[f] THEN b - a + 1 ELSE LimitOf[f]
Backlog(f) == first[f] .. first[f] + Kept(f, first[f], upto[f]) - 1

(* What it gets in all: that, and every later line that is not garbled.    *)
Owed(f) == Backlog(f) \cup ((upto[f] + 1 .. file) \ Garbled)

(* The lines a client has received, and those on their way to it.          *)
Received(f) == Range(seen[f])
Underway(f) == UNION {Range(item) : item \in Range(queue[f])}

(***************************************************************************)
(* A client never receives a line twice or late, nor one it is not owed,   *)
(* and one whose forwarder never lagged receives no line before all those  *)
(* it is owed from before it: "Taking the file lock here is what makes     *)
(* `snapshot_and_follow` exact" (embedded.rs:528-529), for no line falls   *)
(* between the file and the subscription, and none is in both.  What it is *)
(* owed has gaps of its own: a line that is not UTF-8 is left out          *)
(* (render_live_line, embedded.rs:607-612), one such line in the file      *)
(* leaves out all of it (read_to_string().unwrap_or_default(), 544), and   *)
(* limitBytes cuts the end of the file off and not what follows (580-586). *)
(***************************************************************************)
ExactlyOnce ==
    \A f \in Followers :
        /\ \A i, j \in DOMAIN seen[f] : i < j => seen[f][i] < seen[f][j]
        /\ Received(f) \subseteq Owed(f)
        /\ ~lagged[f] => \A x \in Owed(f), y \in Received(f) : x < y => x \in Received(f)

(***************************************************************************)
(* When the stream of a follower that never lagged ends with the           *)
(* container, its client has received every line it is owed, or will from  *)
(* the body: "drain what's buffered and end the stream"                    *)
(* (embedded.rs:1105-1106), for the end may be seen before the last lines. *)
(* A stream that is cut because the container exited before it was         *)
(* followed is not drained.                                                *)
(***************************************************************************)
NothingLostAtTheEnd ==
    \A f \in Followers :
        pc[f] = "ended" /\ ~lagged[f] /\ f \notin away =>
            Owed(f) \subseteq Received(f) \cup Underway(f)
=============================================================================
