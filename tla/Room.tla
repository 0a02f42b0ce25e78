-------------------------------- MODULE Room --------------------------------
(***************************************************************************)
(* What the server promises its users: a room. People come in under a name *)
(* nobody else has, everyone is told who is there after each change, and   *)
(* those whom the news cannot reach leave. Server implements it.           *)
(***************************************************************************)
EXTENDS Naturals, FiniteSets

CONSTANTS
  People,
  ClientIds, Nicknames,
  Limit    \* how many may be in the room

VARIABLES
  members, \* under which name, a pair, each one is in the room: a set of one, or empty outside
  lists,   \* what each member was told last
  leaving, \* people who hear nothing any more
  open     \* until the room closes, those who stay are told who left

vars == <<members, lists, leaving, open>>

names(m) == UNION {m[p] : p \in People}
inside(m) == {p \in People : m[p] # {}}

Init ==
  /\ members = [p \in People |-> {}] /\ lists = [p \in People |-> {}]
  /\ leaving = {} /\ open = TRUE

\* Those inside hear who is there now, except those who are leaving, or find out that they are.
Tell ==
  lists' = [p \in People |-> IF members'[p] = {} THEN {}
                             ELSE IF p \in leaving' THEN lists[p] ELSE names(members')]

\* p enters, or takes another name.
Join(p, id, nick) ==
  /\ members' = [members EXCEPT ![p] = {<<id, nick>>}]
  /\ \A q \in People \ {p} : \A name \in members[q] : id # name[1] /\ nick # name[2]
  /\ Cardinality(inside(members)) < Limit
  /\ leaving \subseteq leaving' /\ leaving' \subseteq People
  /\ Tell
  /\ UNCHANGED open

Leave(p) ==
  /\ p \in inside(members) \cup leaving
  /\ members' = [members EXCEPT ![p] = {}]
  /\ leaving \ {p} \subseteq leaving' /\ leaving' \subseteq People \ {p}
  /\ IF open THEN Tell ELSE lists' = [lists EXCEPT ![p] = {}]
  /\ UNCHANGED open

\* News, or a message, does not reach some people.
Lose ==
  /\ leaving \subseteq leaving' /\ leaving' \subseteq People
  /\ UNCHANGED <<members, lists, open>>

\* A member asks who is there.
Ask(p) ==
  /\ p \in inside(members) \ leaving
  /\ lists' = [lists EXCEPT ![p] = names(members)]
  /\ UNCHANGED <<members, leaving, open>>

Close == open /\ open' = FALSE /\ UNCHANGED <<members, lists, leaving>>

\* Everybody goes.
End ==
  /\ ~open
  /\ members' = [p \in People |-> {}] /\ lists' = [p \in People |-> {}] /\ leaving' = {}
  /\ UNCHANGED open

Next ==
  \/ Lose \/ Close \/ End
  \/ \E p \in People : Leave(p) \/ Ask(p)
  \/ \E p \in People, id \in ClientIds, nick \in Nicknames : Join(p, id, nick)

Spec == Init /\ [][Next]_vars

=============================================================================
