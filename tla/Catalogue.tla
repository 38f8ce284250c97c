------------------------------ MODULE Catalogue -----------------------------
(***************************************************************************)
(* The table model_mappings, the administrators' handlers that change it   *)
(* (app/products/admin/models.py), its seeding at start-up and the lookup  *)
(* of a requested model (app/control/model_resolver.py).                   *)
(*                                                                         *)
(* A handler runs without an await but in several transactions, between    *)
(* which the process may die: what is left of it is in put and left.       *)
(* Aliases are spellings that are not blank, Fold their casefolded form.   *)
(***************************************************************************)
EXTENDS Naturals, Sequences, SequencesExt

CONSTANTS
  Aliases,    \* spellings of aliases
  Fold,       \* the casefolded form of each
  Upstreams,  \* upstream models
  Defaults    \* DEFAULT_MODELS: a sequence of an alias and its upstream model each

NoPut == [alias |-> "none"]
Entries == [alias : Aliases, upstream : Upstreams]

ASSUME CatalogueAssumption ==
  /\ Fold \in [Aliases -> STRING]
  /\ "none" \notin Aliases
  /\ Defaults \in Seq(Entries)
  /\ \A i, j \in 1..Len(Defaults) :
       Fold[Defaults[i].alias] = Fold[Defaults[j].alias] => i = j

VARIABLES
  models,   \* the mappings, by alias
  put,      \* the mapping that replaces the one deleted just now, or NoPut
  left,     \* the aliases an import has yet to handle
  seeds     \* the default models a start-up has yet to store

catalogue == <<models, put, left, seeds>>

Mapping == [upstream : Upstreams, enabled : BOOLEAN]
Pending == [alias : Aliases, upstream : Upstreams, enabled : BOOLEAN]

Stored(table) == DOMAIN table
With(table, row) ==
  [a \in DOMAIN table \cup {row.alias} |->
     IF a = row.alias THEN [upstream |-> row.upstream, enabled |-> row.enabled] ELSE table[a]]
Without(table, a) == [b \in DOMAIN table \ {a} |-> table[b]]

Variants(a) == {b \in Stored(models) : Fold[b] = Fold[a]}

\* Mutant: a model is found under the spelling of its alias only.
FoundExactly(a) == {a} \cap Stored(models)

\* The exact spelling, then any other.
Found(a) == IF a \in Stored(models) THEN {a} ELSE Variants(a)

\* No handler is running.
Idle == put = NoPut /\ left = <<>> /\ seeds = <<>>

CatalogueInit ==
  /\ models = <<>> /\ put = NoPut /\ left = <<>> /\ seeds = <<>>

-----------------------------------------------------------------------------
CreateModel(a, u, enabled) ==
  /\ Idle /\ Variants(a) = {}
  /\ models' = With(models, [alias |-> a, upstream |-> u, enabled |-> enabled])
  /\ UNCHANGED <<put, left, seeds>>

\* A new spelling replaces the old row in two transactions.
Replace(old, row) ==
  IF old = row.alias
  THEN models' = With(models, row) /\ put' = NoPut
  ELSE models' = Without(models, old) /\ put' = row

PatchModel(a, b, u, enabled) ==
  /\ Idle
  /\ \E old \in Found(a) :
       /\ Fold[b] # Fold[old] => Variants(b) = {}
       /\ Replace(old, [alias |-> b, upstream |-> u, enabled |-> enabled])
  /\ UNCHANGED <<left, seeds>>

DeleteModel(a) ==
  /\ Idle
  /\ \E old \in Found(a) : models' = Without(models, old)
  /\ UNCHANGED <<put, left, seeds>>

ImportModels(entries) ==
  /\ Idle
  /\ left' = entries
  /\ UNCHANGED <<models, put, seeds>>

\* Mutant: an alias is looked up in the spelling it is imported under.
ImportSpelled(entry) == {entry.alias} \cap Stored(models)

\* The row an alias of an import meets.
ImportMeets(entry) == Variants(entry.alias)

\* Mutant: an import enables what it renames.
AlwaysEnabled(old) == TRUE

KeptEnabled(old) == models[old].enabled

\* One alias of an import: refused, and the rest with it, when it is taken by
\* another upstream model; enabled stays as it was.
ImportAlias ==
  LET entry == Head(left)
      row(enabled) == [alias |-> entry.alias, upstream |-> entry.upstream, enabled |-> enabled]
  IN  \/ /\ ImportMeets(entry) = {}
         /\ models' = With(models, row(TRUE))
         /\ left' = Tail(left) /\ put' = NoPut
      \/ \E old \in ImportMeets(entry) :
           /\ models[old].upstream = entry.upstream
           /\ Replace(old, row(KeptEnabled(old)))
           /\ left' = Tail(left)
      \/ \E old \in ImportMeets(entry) :
           /\ models[old].upstream # entry.upstream
           /\ left' = <<>>
           /\ UNCHANGED <<models, put>>

ImportStep == put = NoPut /\ left # <<>> /\ ImportAlias /\ UNCHANGED seeds

PutModel ==
  /\ put # NoPut
  /\ models' = With(models, put)
  /\ put' = NoPut
  /\ UNCHANGED <<left, seeds>>

\* Start-up stores the defaults in an empty table, one transaction each.
StartSeeding == IF Stored(models) = {} THEN Defaults ELSE <<>>

SeedModel ==
  /\ seeds # <<>>
  /\ models' = With(models, [alias |-> Head(seeds).alias, upstream |-> Head(seeds).upstream,
                             enabled |-> TRUE])
  /\ seeds' = Tail(seeds)
  /\ UNCHANGED <<put, left>>

-----------------------------------------------------------------------------
(* GET /v1/models, and the lookup of a request: the exact spelling, then   *)
(* any; an unknown model only with passthrough.                            *)
ListedModels == {a \in Stored(models) : models[a].enabled}

Resolutions(a, passthrough) ==
  IF Found(a) = {} THEN IF passthrough THEN {"passthrough"} ELSE {}
  ELSE {models[b].upstream : b \in {c \in Found(a) : models[c].enabled}}

=============================================================================
