---------------------------- MODULE SharedSession ----------------------------
(***************************************************************************)
(* What the runtime promises to whoever opens one session: the abstract    *)
(* specification that SessionManager implements.  At most one driver is    *)
(* made for the session, shared or ending at a time.  Who asks meanwhile   *)
(* waits and gets what comes of it; the driver is kept for those who hold  *)
(* it, and closed with the last of them, whoever else is about to hold it. *)
(* Counts, promises and the maps of the runtime are details of the         *)
(* implementation.                                                         *)
(***************************************************************************)

CONSTANT Callers   \* calls that open the session; a driver is named after one

VARIABLES
  driver,    \* life of every driver: none, open, closing or closed
  made,      \* the driver that nobody has been given yet
  shared,    \* the driver that is given to whoever asks
  ending,    \* the driver that was closed with its last holder
  asked,     \* callers so far
  waiting,   \* those that wait for the session or an error
  given,     \* those that have the shared driver in hand
  holders    \* those that hold a handle on it

vars == <<driver, made, shared, ending, asked, waiting, given, holders>>

Init ==
  /\ driver = [c \in Callers |-> "none"]
  /\ made = {} /\ shared = {} /\ ending = {}
  /\ asked = {} /\ waiting = {} /\ given = {} /\ holders = {}

Absent == made = {} /\ shared = {} /\ ending = {}

(* Who asks for the session waits while nobody has it, and is given the    *)
(* shared driver otherwise.                                                *)
Asks(c) == c \notin asked /\ asked' = asked \cup {c}

Wait(c) ==
  /\ Asks(c) /\ shared = {}
  /\ waiting' = waiting \cup {c}
  /\ UNCHANGED <<driver, made, shared, ending, given, holders>>

Join(c) ==
  /\ Asks(c) /\ shared # {}
  /\ given' = given \cup {c}
  /\ UNCHANGED <<driver, made, shared, ending, waiting, holders>>

(* An agent is asked for the session when there is none, for all that wait.*)
Make(d) ==
  /\ Absent /\ d \in waiting /\ driver[d] = "none"
  /\ driver' = [driver EXCEPT ![d] = "open"]
  /\ made' = {d}
  /\ UNCHANGED <<shared, ending, asked, waiting, given, holders>>

(* It is registered, and everybody that waits gets it.                     *)
Share ==
  /\ made # {}
  /\ shared' = made /\ made' = {}
  /\ given' = waiting /\ waiting' = {}
  /\ UNCHANGED <<driver, ending, asked, holders>>

(* Everybody that waits gets the error; a driver that was made but could   *)
(* not be registered stays open, and belongs to nobody.                    *)
Refuse ==
  /\ shared = {} /\ ending = {}
  /\ made' = {} /\ waiting' = {}
  /\ UNCHANGED <<driver, shared, ending, asked, given, holders>>

Enter(c) ==
  /\ c \in given
  /\ given' = given \ {c} /\ holders' = holders \cup {c}
  /\ UNCHANGED <<driver, made, shared, ending, asked, waiting>>

(* A caller fails before it has a handle.                                  *)
GiveUp(c) ==
  /\ c \in given
  /\ given' = given \ {c}
  /\ UNCHANGED <<driver, made, shared, ending, asked, waiting, holders>>

Closing == [d \in Callers |-> IF d \in shared THEN "closing" ELSE driver[d]]

(* ... and the driver is closed, because nobody holds it.  Nobody waits    *)
(* for its end, and those that were given it too are left with it.         *)
Discard(c) ==
  /\ c \in given /\ holders = {}
  /\ driver' = Closing
  /\ shared' = {} /\ given' = {}
  /\ UNCHANGED <<made, ending, asked, waiting, holders>>

(* The last holder ends the driver: the next is made when it has ended.    *)
Leave(c) ==
  /\ c \in holders
  /\ holders' = holders \ {c}
  /\ IF holders = {c}
     THEN driver' = Closing /\ ending' = shared /\ shared' = {} /\ given' = {}
     ELSE UNCHANGED <<driver, ending, shared, given>>
  /\ UNCHANGED <<made, asked, waiting>>

Ended(d) ==
  /\ driver[d] = "closing"
  /\ driver' = [driver EXCEPT ![d] = "closed"]
  /\ ending' = ending \ {d}
  /\ UNCHANGED <<made, shared, asked, waiting, given, holders>>

Next ==
  \/ \E c \in Callers :
       \/ Wait(c) \/ Join(c) \/ Make(c)
       \/ Enter(c) \/ GiveUp(c) \/ Discard(c) \/ Leave(c)
       \/ Ended(c)
  \/ Share \/ Refuse

Spec == Init /\ [][Next]_vars
==============================================================================
