--------------------------- MODULE StreamAssembly ---------------------------
(***************************************************************************)
(* runnrr/providers/openai_compat_provider.py: how stream puts the tool    *)
(* calls of one assistant message together from the fragments it is sent.  *)
(* A fragment has an index or none, and may bring an id, the name and a    *)
(* piece of the arguments.  Names and pieces are known by the place of     *)
(* their fragment in the stream.  Ids are compared, so they are values:    *)
(* the string "call_<i>", which is an id like any other, is the number i,  *)
(* and any other string one that is not the number of a call.              *)
(***************************************************************************)
EXTENDS Integers, Sequences, FiniteSets, Sorting

None     == -1        \* no index; no id, or the empty one
Fragment == [index : {None} \cup Nat, id : {None} \cup Nat, name : BOOLEAN, args : BOOLEAN]

CONSTANTS
    Fragments,       \* those an endpoint may send
    MaxFragments     \* bound: how many of them

AssemblyAssumption == Fragments \subseteq Fragment /\ MaxFragments \in Nat

VARIABLE arrived     \* the fragments of the message so far

\* What tool_calls.setdefault starts a call with; 0 stands for the empty name.
NewCall == [id |-> None, name |-> 0, args |-> <<>>]

\* Fault variant: without an index it is the first call's.
MutIndexOf(calls, f) == IF f.index = None THEN 0 ELSE f.index

\* A fragment without an index counts as the next call.
IndexOf(calls, f) == IF f.index = None THEN Cardinality(DOMAIN calls) ELSE f.index

\* The n-th fragment of the stream is merged into its call, and announces it
\* (tool_use_start) if that has had no name before.  `at` is history: the index under
\* which each fragment went in.
Merge(state, f, n) ==
    LET k   == IndexOf(state.calls, f)
        acc == IF k \in DOMAIN state.calls THEN state.calls[k] ELSE NewCall
        new == [id   |-> IF f.id # None THEN f.id ELSE acc.id,
                name |-> IF f.name THEN n ELSE acc.name,
                args |-> IF f.args THEN Append(acc.args, n) ELSE acc.args]
    IN  [calls  |-> [i \in DOMAIN state.calls \cup {k} |-> IF i = k THEN new ELSE state.calls[i]],
         starts |-> IF f.name /\ acc.name = 0 THEN Append(state.starts, k) ELSE state.starts,
         at     |-> Append(state.at, k)]

Assembled(stream) ==
    LET nothing == [calls |-> <<>>, starts |-> <<>>, at |-> <<>>]
        after[n \in 0 .. Len(stream)] ==
          IF n = 0 THEN nothing ELSE Merge(after[n - 1], stream[n], n)
    IN  after[Len(stream)]

\* completed_tool_calls, as they stand in the assistant message.
Completed(calls) ==
    LET indexes == Ascending(DOMAIN calls)
    IN  [r \in DOMAIN indexes |-> calls[indexes[r]]]

\* The id that goes out with tool_use_complete, and comes back with the result: the
\* one that is stored, or "call_<i>" for the i-th call if that is empty.
AnsweredId(completed, r) == IF completed[r].id # None THEN completed[r].id ELSE r - 1

-----------------------------------------------------------------------------
Latest(S) == IF S = {} THEN 0 ELSE CHOOSE n \in S : \A m \in S : m <= n

\* The places among P whose fragments bring an id.
Identified(stream, P) == {n \in P : stream[n].id # None}

\* The fragments at the places P make up call c.
MadeOf(c, stream, P) ==
    LET given == Identified(stream, P)
    IN  /\ c.id   = IF given = {} THEN None ELSE stream[Latest(given)].id
        /\ c.name = Latest({n \in P : stream[n].name})
        /\ c.args = Ascending({n \in P : stream[n].args})

\* An endpoint skips an index at n: there are fewer calls than that before it.
Skips(stream, at, n) ==
    /\ stream[n].index # None
    /\ stream[n].index > Cardinality({at[m] : m \in 1 .. n - 1})

\* Calls do not mix, whether their fragments have an index, have none or do so by turns.
\* A call is made of the fragments that went in under its index and of all of them, and
\* those that have an index went in under that one, whoever had it.  A fragment without
\* one starts a call of its own, unless the endpoint had skipped its number and used it
\* before (openai_compat_provider.py:147).
FragmentsKeptApart(stream) ==
    LET end       == Assembled(stream)
        completed == Completed(end.calls)
        indexes   == Ascending({end.at[n] : n \in DOMAIN stream})
    IN  /\ Len(completed) = Len(indexes)
        /\ \A r \in DOMAIN indexes :
             MadeOf(completed[r], stream, {n \in DOMAIN stream : end.at[n] = indexes[r]})
        /\ \A n \in DOMAIN stream : stream[n].index \in {None, end.at[n]}
        /\ \A n \in DOMAIN stream : \A m \in 1 .. n - 1 :
             stream[n].index = None /\ end.at[m] = end.at[n] =>
                \E l \in 1 .. m : end.at[l] = end.at[n] /\ Skips(stream, end.at, l)

\* A call is announced once, if it has a name.
AnnouncedOnce(stream) ==
    LET end == Assembled(stream)
    IN  \A k \in DOMAIN end.calls :
          Cardinality({i \in DOMAIN end.starts : end.starts[i] = k})
              = IF end.calls[k].name = 0 THEN 0 ELSE 1

\* Two calls are answered under one id only if the endpoint gave it to both, or gave one
\* call the id "call_<i>" and the i-th none; and a call is answered under another id than
\* the assistant message stores only if the endpoint gave it none
\* (openai_compat_provider.py:200).
IdsKeptApart(stream) ==
    LET end       == Assembled(stream)
        completed == Completed(end.calls)
        indexes   == Ascending({end.at[n] : n \in DOMAIN stream})
        Given(r)  == {stream[n].id : n \in Identified(stream, {m \in DOMAIN stream :
                                                                  end.at[m] = indexes[r]})}
    IN  /\ \A r, q \in DOMAIN completed :
             r # q /\ AnsweredId(completed, r) = AnsweredId(completed, q) =>
                \/ AnsweredId(completed, r) \in Given(r) \cap Given(q)
                \/ Given(r) = {} /\ r - 1 \in Given(q)
                \/ Given(q) = {} /\ q - 1 \in Given(r)
        /\ \A r \in DOMAIN completed :
             AnsweredId(completed, r) # completed[r].id => Given(r) = {}

-----------------------------------------------------------------------------
(* The stream, fragment by fragment; it may end after any of them.         *)

StreamInit == arrived = <<>>

Arrive ==
    /\ Len(arrived) < MaxFragments
    /\ \E f \in Fragments : arrived' = Append(arrived, f)

StreamSpec == StreamInit /\ [][Arrive]_arrived

\* stream of the OpenAI-compatible provider keeps the calls of a message apart: their
\* fragments, their announcements and the ids they are answered under.
AssemblyLaw ==
    /\ FragmentsKeptApart(arrived)
    /\ AnnouncedOnce(arrived)
    /\ IdsKeptApart(arrived)
=============================================================================
