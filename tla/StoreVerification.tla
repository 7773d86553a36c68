------------------------- MODULE StoreVerification -------------------------
(***************************************************************************)
(* Store::verify_full (src/src/store/verify.rs): the findings of a full    *)
(* scan, as operators over the tables of a store.  Tables are values here, *)
(* so that the scan can be asked about the tables the transactions of      *)
(* ContextStore produce and about tables that something else has changed.  *)
(*                                                                         *)
(* A row of events keeps, beside its columns, the signed event its wire    *)
(* holds, or Unreadable.  Names and identifiers are well formed.           *)
(***************************************************************************)
EXTENDS ContextStore

CONSTANTS
  Rank,             \* event -> its place in the byte order of addresses
  Unreadable,       \* wire that from_wire refuses
  ProjectionEvents  \* VerificationLimits.projection.max_events

ASSUME VerificationAssumption ==
  /\ Rank \in [EventId -> Nat]
  /\ \A d, e \in EventId : Rank[d] = Rank[e] => d = e
  /\ Unreadable \notin EventId
  /\ ProjectionEvents \in Nat \ {0}

\* Signed parents are listed in byte order, and edges numbered along.
Ordinal(e, p) == Cardinality({q \in Body[e].parents : Rank[q] < Rank[p]})

EdgesOf == [e \in EventId |-> {<<Ordinal(e, p), p>> : p \in Body[e].parents}]

\* The tables of a store in the state of the variables.
Tables ==
  [contexts |-> [c \in {x \in ContextId : expected[x] # None} |->
                   [expected |-> expected[c], isActive |-> c \in active,
                    genesis |-> IF c \in active THEN expected[c] ELSE None]],
   authors |-> {pair \in ContextId \X AuthorId : pair[2] \in authors[pair[1]]},
   rows |-> [e \in events |-> [context |-> Body[e].context, author |-> Body[e].author,
                               kind |-> Body[e].kind, wire |-> e]],
   edges |-> [e \in EventId |-> IF e \in events THEN EdgesOf[e] ELSE {}],
   locals |-> {ref \in ContextId \X EventId : \E n \in RefName : localRef[ref[1]][n] = ref[2]},
   remotes |-> {ref \in ContextId \X EventId :
                  \E p \in PeerName, n \in RefName : remoteRef[p][ref[1]][n] = ref[2]}]

Finding(category, S) == {<<category, x>> : x \in S}

\* The same, compared so that TLC computes them once for all that reads them.
TablesNow == CHOOSE t \in {Tables} : t = Tables

----------------------------------------------------------------------------
(* Schema, contexts and authors *)

\* PRAGMA foreign_key_check
ForeignKeys(t) ==
  /\ \A pair \in t.authors : pair[1] \in DOMAIN t.contexts
  /\ \A id \in DOMAIN t.rows : t.rows[id].context \in DOMAIN t.contexts
  /\ \A id \in DOMAIN t.edges : t.edges[id] # {} =>
       id \in DOMAIN t.rows /\ \A edge \in t.edges[id] : edge[2] \in DOMAIN t.rows
  /\ \A ref \in t.locals \cup t.remotes :
       ref[1] \in DOMAIN t.contexts /\ ref[2] \in DOMAIN t.rows

SchemaFindings(t) == IF ForeignKeys(t) THEN {} ELSE {<<"schema", None>>}

ContextFindings(t) == Finding("context",
  {c \in DOMAIN t.contexts :
     t.contexts[c].genesis # IF t.contexts[c].isActive THEN t.contexts[c].expected ELSE None})

AuthorFindings(t) == Finding("authorization",
  {c \in DOMAIN t.contexts : \A pair \in t.authors : pair[1] # c})

----------------------------------------------------------------------------
(* Events and edges *)

\* The rows whose wire can be read, and the events they hold.
Decoded(t) == {id \in DOMAIN t.rows : t.rows[id].wire # Unreadable}
Signed(t, id) == Body[t.rows[id].wire]

Authorized(t, id) == <<Signed(t, id).context, Signed(t, id).author>> \in t.authors

ColumnsMatch(t, id) ==
  LET row == t.rows[id]  signed == Signed(t, id)
  IN  row.context = signed.context /\ row.author = signed.author /\ row.kind = signed.kind

\* Fault: the other columns of a row are not compared with its event.
RowFindingsUncompared(t) ==
  Finding("wire", DOMAIN t.rows \ Decoded(t))
    \cup Finding("identity", {id \in Decoded(t) : t.rows[id].wire # id})
    \cup Finding("authorization", {id \in Decoded(t) : ~Authorized(t, id)})

RowFindings(t) ==
  Finding("wire", DOMAIN t.rows \ Decoded(t))
    \cup Finding("identity", {id \in Decoded(t) : t.rows[id].wire # id})
    \cup Finding("columns", {id \in Decoded(t) : ~ColumnsMatch(t, id)})
    \cup Finding("authorization", {id \in Decoded(t) : ~Authorized(t, id)})

EdgeFindings(t) ==
  Finding("edges", {id \in Decoded(t) : t.edges[id] # EdgesOf[t.rows[id].wire]})
    \cup Finding("edges", {id \in DOMAIN t.edges : t.edges[id] # {} /\ id \notin Decoded(t)})

ParentFindings(t) ==
  Finding("parent missing",
      {id \in Decoded(t) : ~(Signed(t, id).parents \subseteq Decoded(t))})
    \cup Finding("parent context",
      {id \in Decoded(t) : \E p \in Signed(t, id).parents \cap Decoded(t) :
                             Signed(t, p).context # Signed(t, id).context})

----------------------------------------------------------------------------
(* Roots and cycles *)

\* An active context needs its genesis event.
Rootless(t) ==
  {c \in DOMAIN t.contexts :
     LET g == t.contexts[c].expected IN
     /\ t.contexts[c].isActive
     /\ ~(/\ g \in Decoded(t) /\ t.contexts[c].genesis = g
          /\ Signed(t, g).context = c
          /\ Signed(t, g).kind = "context.genesis" /\ Signed(t, g).parents = {})}

\* Events of a context that is still pending, and roots that are not the
\* expected one.
Misplaced(t) ==
  {id \in Decoded(t) :
     LET c == Signed(t, id).context IN
     \/ c \in DOMAIN t.contexts /\ ~t.contexts[c].isActive
     \/ /\ Signed(t, id).parents = {} \/ Signed(t, id).kind = "context.genesis"
        /\ ~(c \in DOMAIN t.contexts /\ t.contexts[c].expected = id)}

GenesisFindings(t) == Finding("genesis", Rootless(t)) \cup Finding("genesis", Misplaced(t))

\* graph_has_cycle: some rows, parents of each other, all have a parent
\* among them.
HasCycle(t) ==
  LET inner == (UNION {Signed(t, id).parents : id \in Decoded(t)}) \cap Decoded(t)
  IN  \E S \in SUBSET inner : S # {} /\ \A id \in S : Signed(t, id).parents \cap S # {}

CycleFindings(t) == IF HasCycle(t) THEN {<<"cycle", None>>} ELSE {}

----------------------------------------------------------------------------
(* Refs, and the projection from each of them *)

Resolves(t, ref) == ref[2] \in Decoded(t) /\ Signed(t, ref[2]).context = ref[1]

\* validate_stored_event: the row and its edges against the decoded event.
Validated(t, id) == ColumnsMatch(t, id) /\ t.edges[id] = EdgesOf[id]

\* load_verified_event and the context check of project_on.
Loads(t, c, id) ==
  /\ id \in Decoded(t) /\ t.rows[id].wire = id
  /\ Validated(t, id)
  /\ Body[id].context = c

\* project_on follows parents as long as the events load, so it reaches the
\* first one that does not.  What loads is what its address says and has no
\* cycle, and its limit counts the whole history.
ProjectionFindings(t) ==
  LET resolved == {ref \in t.locals \cup t.remotes : Resolves(t, ref)}
      broken == {ref \in resolved : \E id \in Ancestors[ref[2]] : ~Loads(t, ref[1], id)}
  IN  Finding("event wire", broken)
        \cup Finding("projection limit",
               {ref \in resolved \ broken :
                  Cardinality(Ancestors[ref[2]]) > ProjectionEvents})

RefFindings(t) ==
  Finding("local ref", {ref \in t.locals : ~Resolves(t, ref)})
    \cup Finding("remote ref", {ref \in t.remotes : ~Resolves(t, ref)})

----------------------------------------------------------------------------
(* The report: max_findings is at least one, so a cut list is not empty. *)

VerifyFull(t) ==
  SchemaFindings(t) \cup ContextFindings(t) \cup AuthorFindings(t)
    \cup RowFindings(t) \cup EdgeFindings(t) \cup ParentFindings(t)
    \cup GenesisFindings(t) \cup CycleFindings(t)
    \cup RefFindings(t) \cup ProjectionFindings(t)

\* report.valid: no part of the scan found anything.
Valid(t) ==
  /\ RowFindings(t) = {} /\ EdgeFindings(t) = {} /\ ParentFindings(t) = {}
  /\ SchemaFindings(t) = {} /\ ContextFindings(t) = {} /\ AuthorFindings(t) = {}
  /\ GenesisFindings(t) = {} /\ RefFindings(t) = {}
  /\ CycleFindings(t) = {} /\ ProjectionFindings(t) = {}

(***************************************************************************)
(* What a valid report is taken to mean: every row is the event its        *)
(* address commits to, with its edges, by an author its context lists; its *)
(* whole history down to the genesis pinned for its context is stored; and *)
(* every ref names a stored event of its context.                          *)
(***************************************************************************)
Sound(t) ==
  /\ \A e \in DOMAIN t.rows : LET c == Body[e].context IN
       /\ t.rows[e] = [context |-> c, author |-> Body[e].author,
                       kind |-> Body[e].kind, wire |-> e]
       /\ t.edges[e] = EdgesOf[e]
       /\ <<c, Body[e].author>> \in t.authors
       /\ Ancestors[e] \subseteq DOMAIN t.rows
       /\ c \in DOMAIN t.contexts /\ t.contexts[c].genesis \in Ancestors[e]
  /\ \A ref \in t.locals \cup t.remotes :
       ref[2] \in DOMAIN t.rows /\ Body[ref[2]].context = ref[1]

(***************************************************************************)
(* Changes something other than the store makes to the tables: of one      *)
(* table, one row dropped, added or with one column changed, the key       *)
(* included; or one event dropped or added together with its edges.        *)
(* Columns hold what the schema lets them hold, and an ordinal is at most  *)
(* one past those in use.                                                  *)
(***************************************************************************)

\* A table that is a set of pairs.
PairChanges(S, A, B) ==
  {S \ {x} : x \in S}
    \cup {S \cup {y} : y \in A \X B}
    \cup {(S \ {x}) \cup {<<a, x[2]>>} : x \in S, a \in A}
    \cup {(S \ {x}) \cup {<<x[1], b>>} : x \in S, b \in B}

Drop(f, x) == [y \in DOMAIN f \ {x} |-> f[y]]

Put(f, x, v) == [y \in DOMAIN f \cup {x} |-> IF y = x THEN v ELSE f[y]]

\* A table with a primary key: dropped, or moved to a key not in use.
KeyChanges(f, keys) ==
  {Drop(f, x) : x \in DOMAIN f}
    \cup {Put(Drop(f, x), y, f[x]) : x \in DOMAIN f, y \in keys \ DOMAIN f}

RowOf(e) == [context |-> Body[e].context, author |-> Body[e].author,
             kind |-> Body[e].kind, wire |-> e]

\* An added row holds the columns and the wire of some event, at any address.
ChangedRows(f) ==
  KeyChanges(f, EventId)
    \cup {[f EXCEPT ![id].context = c] : id \in DOMAIN f, c \in ContextId}
    \cup {[f EXCEPT ![id].author = a] : id \in DOMAIN f, a \in AuthorId}
    \cup {[f EXCEPT ![id].kind = k] : id \in DOMAIN f, k \in Kind}
    \cup {[f EXCEPT ![id].wire = w] : id \in DOMAIN f, w \in EventId \cup {Unreadable}}
    \cup {Put(f, id, RowOf(w)) : id \in EventId \ DOMAIN f, w \in EventId}

\* A column or the key changed, or any row added.
ChangedContexts(f) ==
  KeyChanges(f, ContextId)
    \cup {[f EXCEPT ![c].expected = g] : c \in DOMAIN f, g \in EventId}
    \cup {[f EXCEPT ![c].isActive = ~@] : c \in DOMAIN f}
    \cup {[f EXCEPT ![c].genesis = g] : c \in DOMAIN f, g \in Optional(EventId)}
    \cup {Put(f, c, [expected |-> x, isActive |-> b, genesis |-> g]) :
             c \in ContextId \ DOMAIN f, x \in EventId, b \in BOOLEAN, g \in Optional(EventId)}

\* The edges of one child: dropped, or with the first ordinal not in use or
\* any parent added or put in.
EdgeChanges(S) ==
  LET next == Cardinality(S) IN
  {S \ {x} : x \in S}
    \cup {S \cup {<<next, p>>} : p \in EventId}
    \cup {(S \ {x}) \cup {<<next, x[2]>>} : x \in S}
    \cup {(S \ {x}) \cup {<<x[1], p>>} : x \in S, p \in EventId}

EventChanges(t) ==
  {[t EXCEPT !.rows = Drop(@, id), !.edges[id] = {}] : id \in DOMAIN t.rows}
    \cup {[t EXCEPT !.rows = Put(@, e, RowOf(e)), !.edges[e] = EdgesOf[e]] :
            e \in EventId \ DOMAIN t.rows}

\* Nothing goes unnoticed that is not sound.
Caught(t) == Valid(t) => Sound(t)

----------------------------------------------------------------------------
(* Properties *)

\* No false alarm: whatever transactions produced a store, verify_full finds
\* nothing in it but histories that are over the caller's projection limit
\* (tests/oa03_verify.rs: full verification passes on a healthy store).
VerifiesClean ==
  \A finding \in VerifyFull(Tables) :
    /\ finding[1] = "projection limit"
    /\ Cardinality(Ancestors[finding[2][2]]) > ProjectionEvents

\* No damage missed: drop, add or change one row of any table, whatever the
\* column, and the store is still sound or verify_full reports something.
DamageFound ==
  LET t == TablesNow IN
  /\ \A f \in ChangedRows(t.rows) : Caught([t EXCEPT !.rows = f])
  /\ \A f \in ChangedContexts(t.contexts) : Caught([t EXCEPT !.contexts = f])
  /\ \A id \in EventId : \A S \in EdgeChanges(t.edges[id]) : Caught([t EXCEPT !.edges[id] = S])
  /\ \A id, child \in EventId : \A edge \in t.edges[id] :
       Caught([t EXCEPT !.edges[id] = @ \ {edge}, !.edges[child] = @ \cup {edge}])
  /\ \A S \in PairChanges(t.authors, ContextId, AuthorId) : Caught([t EXCEPT !.authors = S])
  /\ \A S \in PairChanges(t.locals, ContextId, EventId) : Caught([t EXCEPT !.locals = S])
  /\ \A S \in PairChanges(t.remotes, ContextId, EventId) : Caught([t EXCEPT !.remotes = S])
  /\ \A d \in EventChanges(t) : Caught(d)
=============================================================================
