--------------------------- MODULE KeepLastTopic ---------------------------
(***************************************************************************)
(* What the intra-process manager promises about a topic: a message that   *)
(* is published goes to exactly the matched subscriptions that are         *)
(* registered at that moment, each of them once; a subscription keeps the  *)
(* last Depth messages it was given, in the order they were given, and     *)
(* hands them out oldest first; a transient-local subscription starts with *)
(* what the transient-local publishers still keep.  There are no lists of  *)
(* ids, no ring indices, no ownership and no locks here.                   *)
(***************************************************************************)
EXTENDS Naturals, Sequences, FiniteSets

CONSTANTS Pubs, Subs, Transient, Depth

VARIABLES
    member,     \* the publishers and subscriptions that are registered
    sent,       \* sent[p]: how many messages p has published
    due,        \* due[p]: the subscriptions still owed p's last message
    kept,       \* kept[p]: the messages a transient-local p keeps
    inbox       \* inbox[s]: what s has been given and has not taken

vars == <<member, sent, due, kept, inbox>>

\* A volatile publisher cannot serve a transient-local subscription.
Match(p, s) == s \in Transient => p \in Transient

LastOf(x, q) == IF Len(q) <= Depth[x] THEN q ELSE SubSeq(q, Len(q) - Depth[x] + 1, Len(q))

Init ==
    /\ member = {}
    /\ sent = [p \in Pubs |-> 0]
    /\ due = [p \in Pubs |-> {}]
    /\ kept = [p \in Transient \cap Pubs |-> <<>>]
    /\ inbox = [s \in Subs |-> <<>>]

\* What the publishers of ps keep, one publisher after the other, in any order.
Replays(ps) ==
    LET orders == {f \in [1..Cardinality(ps) -> ps] :
                       \A i, j \in DOMAIN f : f[i] = f[j] => i = j}
        upTo(f) == LET g[i \in 0..Len(f)] == IF i = 0 THEN <<>> ELSE g[i - 1] \o kept[f[i]]
                   IN  g[Len(f)]
    IN  {upTo(f) : f \in orders}

Join(x) ==
    /\ x \notin member
    /\ \A p \in Pubs : due[p] = {}
    /\ member' = member \union {x}
    /\ IF x \in Subs \cap Transient
       THEN \E q \in Replays(member \cap Pubs \cap Transient) :
                inbox' = [inbox EXCEPT ![x] = LastOf(x, q)]
       ELSE UNCHANGED inbox
    /\ UNCHANGED <<sent, due, kept>>

Leave(x) ==
    /\ x \in member
    /\ \A p \in Pubs : due[p] = {}
    /\ member' = member \ {x}
    /\ UNCHANGED <<sent, due, kept, inbox>>

LastIsKept(p) == sent[p] > 0 => kept[p] # <<>> /\ kept[p][Len(kept[p])] = <<p, sent[p]>>

Publish(p) ==
    /\ p \in member
    /\ due[p] = {}
    /\ p \in Transient => LastIsKept(p)
    /\ sent' = [sent EXCEPT ![p] = @ + 1]
    /\ due' = [due EXCEPT ![p] = {s \in member \cap Subs : Match(p, s)}]
    /\ UNCHANGED <<member, kept, inbox>>

Deliver(p, s) ==
    /\ s \in due[p]
    /\ due' = [due EXCEPT ![p] = @ \ {s}]
    /\ inbox' = [inbox EXCEPT ![s] = LastOf(s, Append(@, <<p, sent[p]>>))]
    /\ UNCHANGED <<member, sent, kept>>

Keep(p) ==
    /\ due[p] = {}
    /\ ~LastIsKept(p)
    /\ kept' = [kept EXCEPT ![p] = LastOf(p, Append(@, <<p, sent[p]>>))]
    /\ UNCHANGED <<member, sent, due, inbox>>

Take(s) ==
    /\ inbox[s] # <<>>
    /\ inbox' = [inbox EXCEPT ![s] = Tail(@)]
    /\ UNCHANGED <<member, sent, due, kept>>

Next ==
    \/ \E x \in Pubs \union Subs : Join(x) \/ Leave(x)
    \/ \E p \in Pubs : Publish(p) \/ \E s \in Subs : Deliver(p, s)
    \/ \E p \in Pubs \cap Transient : Keep(p)
    \/ \E s \in Subs : Take(s)

Spec == Init /\ [][Next]_vars
=============================================================================
