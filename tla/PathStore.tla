------------------------------ MODULE PathStore ------------------------------
(***************************************************************************)
(* What IStorage promises about paths and heights, with no database in it: *)
(* each call takes effect at one moment between its beginning and its      *)
(* answer, one path has one record of heights, and the record holds what   *)
(* was written to it last.  Storage is shown to implement it.              *)
(***************************************************************************)
EXTENDS Naturals

CONSTANTS
  Callers,
  Calls,      \* what they may ask for
  PathIds,
  Values   \* values of a record of heights

VARIABLES
  paths,    \* the paths that are there, by id
  heights,  \* what was written last for each id, 0 before
  next,     \* the id of the next path
  call,     \* what a caller has asked for
  stage,    \* how far its call has come
  answer

Idle == [op |-> "none"]
NoAnswer == [ok |-> TRUE, ids |-> {}, value |-> 0]

There(i) == \E p \in paths : p.id = i
Ids(k) == {p.id : p \in {q \in paths : q.key = k}}
Least(S) == {i \in S : \A j \in S : i <= j}

Init ==
  /\ paths = {}
  /\ heights = [i \in PathIds |-> 0]
  /\ next = 1
  /\ call = [c \in Callers |-> Idle]
  /\ stage = [c \in Callers |-> "idle"]
  /\ answer = [c \in Callers |-> NoAnswer]

Invoke(c) ==
  /\ stage[c] = "idle"
  /\ \E k \in Calls : call' = [call EXCEPT ![c] = k]
  /\ stage' = [stage EXCEPT ![c] = "asked"]
  /\ UNCHANGED <<paths, heights, next, answer>>

AddPath(c) ==
  /\ stage[c] = "asked" /\ call[c].op = "addRelayPath"
  /\ paths' = paths \union {[id |-> next, key |-> call[c].key]}
  /\ next' = next + 1
  /\ stage' = [stage EXCEPT ![c] = "applied"]
  /\ UNCHANGED <<heights, call, answer>>

\* Heights are those of all four searches at once.
Write(c) ==
  /\ stage[c] = "asked" /\ call[c].op = "updateRelayedHeights"
  /\ There(call[c].path)
  /\ heights' = [heights EXCEPT ![call[c].path] = call[c].value]
  /\ stage' = [stage EXCEPT ![c] = "answered"]
  /\ UNCHANGED <<paths, next, call, answer>>

\* What a call may be answered now; for a path that is gone, anything.
Answers(c) ==
  CASE stage[c] = "applied" \/ call[c].op = "getRelayPath" ->
         {[NoAnswer EXCEPT !.ids = Least(Ids(call[c].key))]}
    [] call[c].op = "getRelayPaths" -> {[NoAnswer EXCEPT !.ids = {p.id : p \in paths}]}
    [] call[c].op = "getRelayedHeights" /\ There(call[c].path) ->
         {[NoAnswer EXCEPT !.value = heights[call[c].path]]}
    [] call[c].op \in {"getRelayedHeights", "updateRelayedHeights"} /\ ~There(call[c].path) ->
         [ok : BOOLEAN, ids : {{}}, value : Values]
    [] OTHER -> {}

Answer(c) ==
  /\ stage[c] \in {"asked", "applied"}
  /\ \E r \in Answers(c) : answer' = [answer EXCEPT ![c] = r]
  /\ stage' = [stage EXCEPT ![c] = "answered"]
  /\ UNCHANGED <<paths, heights, next, call>>

\* A caller has its answer, or dies without it.
Leave(c) ==
  /\ stage[c] # "idle"
  /\ call' = [call EXCEPT ![c] = Idle]
  /\ stage' = [stage EXCEPT ![c] = "idle"]
  /\ answer' = [answer EXCEPT ![c] = NoAnswer]
  /\ UNCHANGED <<paths, heights, next>>

\* An operator deletes a path and its heights.
Remove ==
  \E p \in paths :
    /\ paths' = paths \ {p}
    /\ heights' = [heights EXCEPT ![p.id] = 0]
    /\ UNCHANGED <<next, call, stage, answer>>

Next ==
  \/ \E c \in Callers : Invoke(c) \/ AddPath(c) \/ Write(c) \/ Answer(c) \/ Leave(c)
  \/ Remove

vars == <<paths, heights, next, call, stage, answer>>
Spec == Init /\ [][Next]_vars

==============================================================================
