---------------------------- MODULE RecordsProofs ----------------------------
(***************************************************************************)
(* The catalogue, the settings and the pages over the request log, for     *)
(* every set of aliases, imports, patches and requests and every bound.    *)
(***************************************************************************)
EXTENDS Records, DataProofs

\* A table of mappings no two of which differ in their spelling only.
Unique(table) == \A a, b \in DOMAIN table : Fold[a] = Fold[b] => a = b

\* No mapping has this alias in any spelling.
Free(table, a) == \A b \in DOMAIN table : Fold[b] # Fold[a]

\* What is left of a handler or of a start-up meets a table it fits in.
CatalogueInv ==
  /\ DOMAIN models \subseteq Aliases
  /\ Unique(models)
  /\ put # NoPut => put.alias \in Aliases /\ Free(models, put.alias)
  /\ left \in Seq(Entries)
  /\ seeds \in Seq(Entries)
  /\ seeds # <<>> => put = NoPut /\ left = <<>>
  /\ \A i \in 1..Len(seeds) : Free(models, seeds[i].alias)
  /\ \A i, j \in 1..Len(seeds) : Fold[seeds[i].alias] = Fold[seeds[j].alias] => i = j
  /\ ~up => Idle

\* Memory and database agree on every setting at all times.
SettingsInv ==
  /\ memory = Overridden
  /\ DOMAIN updates \subseteq PersistedConfigKeys \ {"affinity"}

\* What is enabled in table u was enabled in t, in some spelling, or is new.
NoneRaised(t, u) ==
  \A b \in DOMAIN u : u[b].enabled =>
    Free(t, b) \/ \E c \in DOMAIN t : Fold[c] = Fold[b] /\ t[c].enabled

-----------------------------------------------------------------------------
\* upsert_model stores an alias that is free, or the spelling that is stored.
LEMMA WithUnique ==
  ASSUME NEW table, NEW row, DOMAIN table \subseteq Aliases, Unique(table),
         row.alias \in Aliases,
         row.alias \in DOMAIN table \/ Free(table, row.alias)
  PROVE  /\ DOMAIN With(table, row) = DOMAIN table \cup {row.alias}
         /\ DOMAIN With(table, row) \subseteq Aliases
         /\ Unique(With(table, row))
BY DEF With, Unique, Free

\* delete_model keeps the others apart and frees the alias in every spelling.
LEMMA WithoutUnique ==
  ASSUME NEW table, NEW a \in DOMAIN table, DOMAIN table \subseteq Aliases, Unique(table)
  PROVE  /\ DOMAIN Without(table, a) = DOMAIN table \ {a}
         /\ Unique(Without(table, a))
         /\ Free(Without(table, a), a)
BY DEF Without, Unique, Free

\* CreateModel, PatchModel, DeleteModel and ImportModels.
LEMMA ModelCallInv ==
  ASSUME CatalogueInv, Ready, ModelCall, up' = up
  PROVE  CatalogueInv'
<1>1. Idle /\ up
  BY DEF Ready
<1>2. ASSUME NEW a \in Aliases, NEW u \in Upstreams, NEW e \in BOOLEAN,
             CreateModel(a, u, e)
      PROVE  CatalogueInv'
  <2> DEFINE row == [alias |-> a, upstream |-> u, enabled |-> e]
  <2>1. models' = With(models, row) /\ UNCHANGED <<put, left, seeds>>
    BY <1>2 DEF CreateModel
  <2>2. Free(models, a)
    BY <1>2 DEF CreateModel, Variants, Free, Stored
  <2>3. /\ DOMAIN With(models, row) \subseteq Aliases
        /\ Unique(With(models, row))
    BY <2>2, WithUnique DEF CatalogueInv
  <2> QED BY <1>1, <2>1, <2>3 DEF CatalogueInv, Idle
<1>3. ASSUME NEW a \in Aliases, NEW b \in Aliases, NEW u \in Upstreams, NEW e \in BOOLEAN,
             PatchModel(a, b, u, e)
      PROVE  CatalogueInv'
  <2> DEFINE row == [alias |-> b, upstream |-> u, enabled |-> e]
  <2>1. PICK old \in Found(a) : /\ Fold[b] # Fold[old] => Variants(b) = {}
                                /\ Replace(old, row)
    BY <1>3 DEF PatchModel
  <2>2. old \in DOMAIN models
    BY DEF Found, Variants, Stored
  <2>3. UNCHANGED <<left, seeds>>
    BY <1>3 DEF PatchModel
  <2>4. CASE old = row.alias
    <3>1. models' = With(models, row) /\ put' = NoPut
      BY <2>1, <2>4 DEF Replace
    <3>2. DOMAIN models' \subseteq Aliases /\ Unique(models')
      BY <2>2, <2>4, <3>1, WithUnique DEF CatalogueInv
    <3> QED BY <1>1, <2>3, <3>1, <3>2 DEF CatalogueInv, Idle
  <2>5. CASE old # row.alias
    <3>1. models' = Without(models, old) /\ put' = row
      BY <2>1, <2>5 DEF Replace
    <3>2. /\ DOMAIN models' \subseteq Aliases
          /\ Unique(models')
          /\ Free(models', old)
          /\ DOMAIN models' \subseteq DOMAIN models
      BY <2>2, <3>1, WithoutUnique DEF CatalogueInv
    <3>3. Free(models', b)
      BY <2>1, <3>2 DEF Free, Variants, Stored
    <3> QED BY <1>1, <2>3, <3>1, <3>2, <3>3 DEF CatalogueInv, Idle
  <2> QED BY <2>4, <2>5
<1>4. ASSUME NEW a \in Aliases, DeleteModel(a)
      PROVE  CatalogueInv'
  <2>1. PICK old \in Found(a) : models' = Without(models, old)
    BY <1>4 DEF DeleteModel
  <2>2. old \in DOMAIN models
    BY DEF Found, Variants, Stored
  <2>3. UNCHANGED <<put, left, seeds>>
    BY <1>4 DEF DeleteModel
  <2>4. DOMAIN models' \subseteq Aliases /\ Unique(models')
    BY <2>1, <2>2, WithoutUnique DEF CatalogueInv
  <2> QED BY <1>1, <2>3, <2>4 DEF CatalogueInv, Idle
<1>5. ASSUME NEW entries \in Imports, ImportModels(entries)
      PROVE  CatalogueInv'
  <2>1. left' \in Seq(Entries) /\ UNCHANGED <<models, put, seeds>>
    BY <1>5, RecordsAssumption DEF ImportModels
  <2> QED BY <1>1, <2>1 DEF CatalogueInv, Idle, Free
<1> QED BY <1>2, <1>3, <1>4, <1>5 DEF ModelCall

\* One alias of an import.
LEMMA ImportStepInv ==
  ASSUME CatalogueInv, up, ImportStep, up' = up
  PROVE  CatalogueInv'
<1> DEFINE entry == Head(left)
           row(e) == [alias |-> entry.alias, upstream |-> entry.upstream, enabled |-> e]
<1>1. /\ put = NoPut /\ left # <<>> /\ UNCHANGED seeds
      /\ seeds = <<>>
  BY DEF ImportStep, CatalogueInv
<1>2. entry \in Entries /\ Tail(left) \in Seq(Entries)
  BY <1>1 DEF CatalogueInv
<1>3. entry.alias \in Aliases
  BY <1>2 DEF Entries
<1>4. ASSUME NEW t, NEW p, NEW l \in Seq(Entries),
             DOMAIN t \subseteq Aliases, Unique(t),
             p # NoPut => p.alias \in Aliases /\ Free(t, p.alias),
             models' = t, put' = p, left' = l
      PROVE  CatalogueInv'
  BY <1>1, <1>4 DEF CatalogueInv
<1>5. CASE /\ ImportMeets(entry) = {}
           /\ models' = With(models, row(TRUE))
           /\ left' = Tail(left) /\ put' = NoPut
  <2>1. Free(models, entry.alias)
    BY <1>5 DEF ImportMeets, Variants, Free, Stored
  <2>2. DOMAIN With(models, row(TRUE)) \subseteq Aliases /\ Unique(With(models, row(TRUE)))
    BY <1>3, <2>1, WithUnique DEF CatalogueInv
  <2> QED BY <1>2, <1>4, <1>5, <2>2
<1>6. ASSUME NEW old \in ImportMeets(entry), Replace(old, row(KeptEnabled(old))),
             left' = Tail(left)
      PROVE  CatalogueInv'
  <2>1. old \in DOMAIN models /\ Fold[old] = Fold[entry.alias]
    BY DEF ImportMeets, Variants, Stored
  <2>2. CASE old = entry.alias
    <3>1. models' = With(models, row(KeptEnabled(old))) /\ put' = NoPut
      BY <1>6, <2>2 DEF Replace
    <3>2. DOMAIN models' \subseteq Aliases /\ Unique(models')
      BY <1>3, <2>1, <2>2, <3>1, WithUnique DEF CatalogueInv
    <3> QED BY <1>2, <1>4, <1>6, <3>1, <3>2
  <2>3. CASE old # entry.alias
    <3>1. models' = Without(models, old) /\ put' = row(KeptEnabled(old))
      BY <1>6, <2>3 DEF Replace
    <3>2. DOMAIN models' \subseteq Aliases /\ Unique(models') /\ Free(models', old)
      BY <2>1, <3>1, WithoutUnique DEF CatalogueInv
    <3>3. Free(models', entry.alias)
      BY <2>1, <3>2 DEF Free
    <3> QED BY <1>2, <1>3, <1>4, <1>6, <3>1, <3>2, <3>3
  <2> QED BY <2>2, <2>3
<1>7. CASE left' = <<>> /\ UNCHANGED <<models, put>>
  BY <1>1, <1>4, <1>7 DEF CatalogueInv
<1>8. ImportAlias
  BY DEF ImportStep
<1> QED BY <1>5, <1>6, <1>7, <1>8 DEF ImportAlias

\* The second half of a rename.
LEMMA PutModelInv ==
  ASSUME CatalogueInv, up, PutModel, up' = up
  PROVE  CatalogueInv'
<1>1. /\ put # NoPut /\ models' = With(models, put) /\ put' = NoPut
      /\ UNCHANGED <<left, seeds>> /\ seeds = <<>>
  BY DEF PutModel, CatalogueInv
<1>2. DOMAIN models' \subseteq Aliases /\ Unique(models')
  BY <1>1, WithUnique DEF CatalogueInv
<1> QED BY <1>1, <1>2 DEF CatalogueInv

\* One default model of a start-up.
LEMMA SeedModelInv ==
  ASSUME CatalogueInv, up, SeedModel, up' = up
  PROVE  CatalogueInv'
<1> DEFINE entry == Head(seeds)
           row == [alias |-> entry.alias, upstream |-> entry.upstream, enabled |-> TRUE]
<1>1. /\ seeds # <<>> /\ models' = With(models, row) /\ seeds' = Tail(seeds)
      /\ UNCHANGED <<put, left>>
  BY DEF SeedModel
<1>2. /\ seeds \in Seq(Entries) /\ Tail(seeds) \in Seq(Entries)
      /\ 1 \in 1..Len(seeds) /\ entry = seeds[1] /\ entry \in Entries
      /\ Len(Tail(seeds)) = Len(seeds) - 1
      /\ Len(seeds) \in Nat
      /\ \A i \in 1..Len(Tail(seeds)) : Tail(seeds)[i] = seeds[i + 1] /\ i + 1 \in 1..Len(seeds)
  BY <1>1 DEF CatalogueInv
<1>3. entry.alias \in Aliases
  BY <1>2 DEF Entries
<1>4. Free(models, entry.alias)
  BY <1>2 DEF CatalogueInv
<1>5. /\ DOMAIN models' = DOMAIN models \cup {entry.alias}
      /\ DOMAIN models' \subseteq Aliases
      /\ Unique(models')
  BY <1>1, <1>3, <1>4, WithUnique, ZenonT(60) DEF CatalogueInv
<1>6. ASSUME NEW i \in 1..Len(seeds')
      PROVE  Free(models', seeds'[i].alias)
  <2>1. seeds'[i] = seeds[i + 1] /\ i + 1 \in 1..Len(seeds) /\ i + 1 # 1
    BY <1>1, <1>2
  <2>2. Free(models, seeds[i + 1].alias) /\ Fold[seeds[i + 1].alias] # Fold[seeds[1].alias]
    BY <1>2, <2>1 DEF CatalogueInv
  <2> QED BY <1>2, <1>5, <2>1, <2>2 DEF Free
<1>7. ASSUME NEW i \in 1..Len(seeds'), NEW j \in 1..Len(seeds'),
             Fold[seeds'[i].alias] = Fold[seeds'[j].alias]
      PROVE  i = j
  <2>1. /\ seeds'[i] = seeds[i + 1] /\ i + 1 \in 1..Len(seeds)
        /\ seeds'[j] = seeds[j + 1] /\ j + 1 \in 1..Len(seeds)
    BY <1>1, <1>2
  <2>2. i + 1 = j + 1
    BY <1>7, <2>1 DEF CatalogueInv
  <2> QED BY <1>1, <1>2, <2>2
<1>8. put' = NoPut /\ left' = <<>>
  BY <1>1 DEF CatalogueInv
<1> QED BY <1>1, <1>2, <1>5, <1>6, <1>7, <1>8 DEF CatalogueInv

-----------------------------------------------------------------------------
\* Every step of the process keeps what is left of a handler in order.
LEMMA CatalogueStep ==
  ASSUME CatalogueInv, [RecordsNext]_records
  PROVE  CatalogueInv'
<1>1. CASE Start
  <2>1. /\ ~up /\ up' /\ seeds' = StartSeeding
        /\ UNCHANGED <<models, put, left>> /\ put = NoPut /\ left = <<>>
    BY <1>1 DEF Start, CatalogueInv, Idle
  <2>2. CASE DOMAIN models = {}
    BY <2>1, <2>2, CatalogueAssumption DEF StartSeeding, Stored, CatalogueInv, Free
  <2>3. CASE DOMAIN models # {}
    BY <2>1, <2>3 DEF StartSeeding, Stored, CatalogueInv
  <2> QED BY <2>2, <2>3
<1>2. CASE Crash
  BY <1>2 DEF Crash, CatalogueInv, Idle
<1>3. CASE AdminCall
  <2>1. CASE ModelCall
    BY <1>3, <2>1, ModelCallInv DEF AdminCall
  <2>2. CASE UNCHANGED catalogue
    BY <1>3, <2>2 DEF AdminCall, catalogue, CatalogueInv, Idle
  <2> QED BY <1>3, <2>1, <2>2 DEF AdminCall, catalogue
<1>4. CASE HandlerStep
  <2>1. up /\ up' = up
    BY <1>4 DEF HandlerStep
  <2>2. CASE UNCHANGED catalogue
    BY <2>1, <2>2 DEF catalogue, CatalogueInv, Idle
  <2> QED BY <1>4, <2>1, <2>2, ImportStepInv, PutModelInv, SeedModelInv DEF HandlerStep
<1>5. CASE LogRequest
  BY <1>5 DEF LogRequest, catalogue, CatalogueInv, Idle
<1>6. CASE UNCHANGED records
  BY <1>6 DEF records, CatalogueInv, Idle
<1> QED BY <1>1, <1>2, <1>3, <1>4, <1>5, <1>6 DEF RecordsNext

\* An empty table is in order.
LEMMA CatalogueStart ==
  ASSUME RecordsInit
  PROVE  CatalogueInv
BY DEF RecordsInit, CatalogueInit, CatalogueInv, Unique, Free, Idle

\* Whatever imports, renames, start-ups and crashes do, no two mappings differ
\* in the spelling of their alias only (products/admin/models.py).
THEOREM AliasesStayUnique == RecordsSpec => []AliasesUnique
<1>1. RecordsInit => CatalogueInv
  BY CatalogueStart
<1>2. CatalogueInv /\ [RecordsNext]_records => CatalogueInv'
  BY CatalogueStep
<1>3. CatalogueInv => AliasesUnique
  BY DEF CatalogueInv, Unique, AliasesUnique, Stored
<1> QED BY <1>1, <1>2, <1>3, PTL DEF RecordsSpec

\* A request finds a model under any spelling of an alias if and only if
\* /v1/models lists it, and then one upstream model only, whatever imports and
\* renames have left: the exact spelling never shadows another one.
THEOREM ModelsFoundAsListed == RecordsSpec => []ResolvedAsListed
<1>1. RecordsInit => CatalogueInv
  BY CatalogueStart
<1>2. CatalogueInv /\ [RecordsNext]_records => CatalogueInv'
  BY CatalogueStep
<1>3. CatalogueInv => ResolvedAsListed
  <2> SUFFICES ASSUME CatalogueInv, NEW a \in Aliases
               PROVE  /\ Cardinality(Resolutions(a, FALSE)) <= 1
                      /\ Resolutions(a, FALSE) # {}
                           <=> \E b \in ListedModels : Fold[b] = Fold[a]
    BY DEF ResolvedAsListed
  <2>1. Found(a) = Variants(a)
    BY DEF CatalogueInv, Unique, Found, Variants, Stored
  <2> DEFINE on == {c \in Variants(a) : models[c].enabled}
             found == Resolutions(a, FALSE)
  <2>2. \A b, c \in on : b = c
    BY DEF CatalogueInv, Unique, Variants, Stored
  <2>3. on # {} <=> \E b \in ListedModels : Fold[b] = Fold[a]
    BY DEF ListedModels, Variants, Stored
  <2>4. found = {models[b].upstream : b \in on}
    BY <2>1, Zenon DEF Resolutions
  <2> HIDE DEF on, found
  <2>5. ASSUME on = {} PROVE Cardinality(found) <= 1 /\ found = {}
    <3>1. found = {}
      BY <2>4, <2>5
    <3> QED BY <2>5, <3>1, FS_EmptySet
  <2>6. ASSUME on # {} PROVE Cardinality(found) <= 1 /\ found # {}
    <3>1. PICK b \in on : TRUE
      BY <2>6
    <3>2. found = {models[b].upstream}
      BY <2>2, <2>4, <3>1
    <3>3. Cardinality(found) = 1
      BY <3>2, FS_Singleton
    <3> QED BY <3>1, <3>2, <3>3
  <2>7. Cardinality(found) <= 1 /\ (found # {} <=> on # {})
    BY <2>5, <2>6
  <2> QED BY <2>3, <2>7, Zenon DEF found
<1> QED BY <1>1, <1>2, <1>3, PTL DEF RecordsSpec

-----------------------------------------------------------------------------
\* A table with a row stored in it, and a row that is not deleted.
LEMMA WithRow ==
  ASSUME NEW t, NEW row
  PROVE  /\ row.alias \in DOMAIN With(t, row)
         /\ With(t, row)[row.alias].enabled = row.enabled
         /\ \A b \in DOMAIN With(t, row) \ {row.alias} :
              b \in DOMAIN t /\ With(t, row)[b] = t[b]
BY DEF With

\* A mapping that is deleted.
LEMMA WithoutRow ==
  ASSUME NEW t, NEW a
  PROVE  \A b \in DOMAIN Without(t, a) : b \in DOMAIN t /\ Without(t, a)[b] = t[b]
BY DEF Without

\* A step that leaves the mappings alone, and those it replaces, raises none.
LEMMA SameView ==
  ASSUME UNCHANGED <<models, put>>
  PROVE  NoneRaised(View, View')
BY DEF View, With, NoneRaised

\* A mapping on its way has a real alias, which the marker of none has not.
LEMMA RealPut ==
  ASSUME NEW row, row.alias \in Aliases
  PROVE  row # NoPut
BY CatalogueAssumption DEF NoPut

\* The mappings of the view differ in more than their spelling.
LEMMA ViewUnique ==
  ASSUME CatalogueInv
  PROVE  Unique(View)
<1>1. CASE put = NoPut
  BY <1>1 DEF View, CatalogueInv
<1>2. CASE put # NoPut
  BY <1>2, WithUnique DEF View, CatalogueInv
<1> QED BY <1>1, <1>2

\* Of the administrators' calls only a patch raises a mapping.
LEMMA ModelCallRaises ==
  ASSUME CatalogueInv, Idle, ModelCall,
         ~\E b, c \in Aliases, u \in Upstreams : PatchModel(b, c, u, TRUE)
  PROVE  NoneRaised(View, View')
<1>1. put = NoPut /\ View = models
  BY DEF Idle, View
<1>2. ASSUME NEW a \in Aliases, NEW u \in Upstreams, NEW e \in BOOLEAN,
             CreateModel(a, u, e)
      PROVE  NoneRaised(View, View')
  <2> DEFINE row == [alias |-> a, upstream |-> u, enabled |-> e]
  <2>1. View' = With(models, row)
    BY <1>1, <1>2 DEF CreateModel, View
  <2>2. Free(models, a)
    BY <1>2 DEF CreateModel, Variants, Free, Stored
  <2> QED BY <1>1, <2>1, <2>2, WithRow DEF NoneRaised
<1>3. ASSUME NEW a \in Aliases, NEW b \in Aliases, NEW u \in Upstreams, NEW e \in BOOLEAN,
             PatchModel(a, b, u, e)
      PROVE  NoneRaised(View, View')
  <2> DEFINE row == [alias |-> b, upstream |-> u, enabled |-> e]
  <2>1. ~row.enabled
    BY <1>3
  <2>2. PICK old \in Found(a) : Replace(old, row)
    BY <1>3 DEF PatchModel
  <2>3. CASE old = row.alias
    <3>1. View' = With(models, row)
      BY <2>2, <2>3 DEF Replace, View
    <3> QED BY <1>1, <2>1, <3>1, WithRow DEF NoneRaised
  <2>4. CASE old # row.alias
    <3>1. View' = With(Without(models, old), row)
      BY <2>2, <2>4, RealPut DEF Replace, View
    <3> QED BY <1>1, <2>1, <3>1, WithRow, WithoutRow DEF NoneRaised
  <2> QED BY <2>3, <2>4
<1>4. ASSUME NEW a \in Aliases, DeleteModel(a)
      PROVE  NoneRaised(View, View')
  <2>1. PICK old \in Found(a) : View' = Without(models, old)
    BY <1>1, <1>4 DEF DeleteModel, View
  <2> QED BY <1>1, <2>1, WithoutRow DEF NoneRaised
<1>5. ASSUME NEW entries \in Imports, ImportModels(entries)
      PROVE  NoneRaised(View, View')
  BY <1>5, SameView DEF ImportModels
<1> QED BY <1>2, <1>3, <1>4, <1>5 DEF ModelCall

\* An import keeps what it meets as it is.
LEMMA ImportRaises ==
  ASSUME CatalogueInv, ImportStep
  PROVE  NoneRaised(View, View')
<1> DEFINE entry == Head(left)
           row(e) == [alias |-> entry.alias, upstream |-> entry.upstream, enabled |-> e]
<1>1. put = NoPut /\ View = models /\ left # <<>>
  BY DEF ImportStep, View
<1>2. entry \in Entries
  BY <1>1 DEF CatalogueInv
<1>3. entry.alias \in Aliases
  BY <1>2 DEF Entries
<1>4. CASE ImportMeets(entry) = {} /\ models' = With(models, row(TRUE)) /\ put' = NoPut
  <2>1. Free(models, entry.alias) /\ View' = With(models, row(TRUE))
    BY <1>4 DEF ImportMeets, Variants, Free, Stored, View
  <2> QED BY <1>1, <2>1, WithRow DEF NoneRaised
<1>5. ASSUME NEW old \in ImportMeets(entry), Replace(old, row(KeptEnabled(old)))
      PROVE  NoneRaised(View, View')
  <2> DEFINE kept == row(models[old].enabled)
  <2>1. old \in DOMAIN models /\ Fold[old] = Fold[kept.alias] /\ Replace(old, kept)
    BY <1>5 DEF ImportMeets, Variants, Stored, KeptEnabled
  <2>2. CASE old = kept.alias
    <3>1. View' = With(models, kept)
      BY <2>1, <2>2 DEF Replace, View
    <3> QED BY <1>1, <2>1, <3>1, WithRow DEF NoneRaised
  <2>3. CASE old # kept.alias
    <3>1. View' = With(Without(models, old), kept)
      BY <1>3, <2>1, <2>3, RealPut DEF Replace, View
    <3> QED BY <1>1, <2>1, <3>1, WithRow, WithoutRow DEF NoneRaised
  <2> QED BY <2>2, <2>3
<1>6. CASE UNCHANGED <<models, put>>
  BY <1>6, SameView
<1>7. ImportAlias
  BY DEF ImportStep
<1> QED BY <1>4, <1>5, <1>6, <1>7 DEF ImportAlias

\* The second half of a rename, and one default of a start-up.
LEMMA StoreRaises ==
  ASSUME CatalogueInv, PutModel \/ SeedModel
  PROVE  NoneRaised(View, View')
<1>1. CASE PutModel
  <2>1. View' = View
    BY <1>1 DEF PutModel, View
  <2> QED BY <2>1 DEF NoneRaised
<1>2. CASE SeedModel
  <2> DEFINE row == [alias |-> Head(seeds).alias, upstream |-> Head(seeds).upstream,
                     enabled |-> TRUE]
  <2>1. seeds # <<>> /\ put = NoPut
    BY <1>2 DEF SeedModel, CatalogueInv
  <2>2. View = models /\ View' = With(models, row)
    BY <1>2, <2>1 DEF SeedModel, View
  <2>3. Head(seeds) = seeds[1] /\ 1 \in 1..Len(seeds)
    BY <2>1 DEF CatalogueInv
  <2>4. Free(models, row.alias)
    BY <2>3 DEF CatalogueInv
  <2> QED BY <2>2, <2>4, WithRow DEF NoneRaised
<1> QED BY <1>1, <1>2

\* A crash in the middle of a rename loses the mapping and raises none.
LEMMA CrashRaises ==
  ASSUME CatalogueInv, Crash
  PROVE  NoneRaised(View, View')
<1>1. View' = models
  BY DEF Crash, View
<1>2. CASE put = NoPut
  BY <1>1, <1>2 DEF View, NoneRaised
<1>3. CASE put # NoPut
  <2>1. View = With(models, put) /\ Free(models, put.alias)
    BY <1>3 DEF View, CatalogueInv
  <2>2. \A b \in DOMAIN models : b \in DOMAIN View /\ View[b] = models[b]
    BY <2>1 DEF With, Free
  <2> QED BY <1>1, <2>2 DEF NoneRaised
<1> QED BY <1>2, <1>3

\* Whatever the process does, a disabled model is enabled by a patch only.
LEMMA OnlyPatchRaises ==
  ASSUME CatalogueInv, [RecordsNext]_records,
         ~\E b, c \in Aliases, u \in Upstreams : PatchModel(b, c, u, TRUE)
  PROVE  NoneRaised(View, View')
<1>1. CASE UNCHANGED <<models, put>>
  BY <1>1, SameView
<1>2. CASE AdminCall
  <2>1. Idle
    BY <1>2 DEF AdminCall, Ready
  <2> QED BY <1>1, <1>2, <2>1, ModelCallRaises DEF AdminCall, catalogue
<1>3. CASE HandlerStep
  BY <1>1, <1>3, ImportRaises, StoreRaises DEF HandlerStep, catalogue
<1>4. CASE Start \/ LogRequest \/ UNCHANGED records
  BY <1>1, <1>4 DEF Start, LogRequest, catalogue, records
<1> QED BY <1>2, <1>3, <1>4, CrashRaises DEF RecordsNext

\* A model an administrator disabled is never enabled by an import, a rename, a
\* start-up or a crash in the middle of one (products/admin/models.py:133).
THEOREM DisabledStaysDisabled == RecordsSpec => DisabledStays
<1>1. RecordsInit => CatalogueInv
  BY CatalogueStart
<1>2. CatalogueInv /\ [RecordsNext]_records => CatalogueInv'
  BY CatalogueStep
<1>3. ASSUME CatalogueInv, [RecordsNext]_records
      PROVE  \A a \in Aliases :
               /\ Disabled(View, Fold[a]) /\ Enabled(View', Fold[a])
               => \E b, c \in Aliases, u \in Upstreams : PatchModel(b, c, u, TRUE)
  <2>1. SUFFICES ASSUME NEW a \in Aliases,
                        ~\E b, c \in Aliases, u \in Upstreams : PatchModel(b, c, u, TRUE),
                        Disabled(View, Fold[a]), Enabled(View', Fold[a])
                 PROVE  FALSE
    OBVIOUS
  <2>2. NoneRaised(View, View') /\ Unique(View)
    BY <1>3, <2>1, OnlyPatchRaises, ViewUnique
  <2>3. PICK b \in DOMAIN View : Fold[b] = Fold[a] /\ ~View[b].enabled
    BY <2>1 DEF Disabled
  <2>4. PICK c \in DOMAIN View' : Fold[c] = Fold[a] /\ View'[c].enabled
    BY <2>1 DEF Enabled
  <2>5. PICK d \in DOMAIN View : Fold[d] = Fold[c] /\ View[d].enabled
    BY <2>2, <2>3, <2>4 DEF NoneRaised, Free
  <2>6. d = b
    BY <2>2, <2>3, <2>4, <2>5 DEF Unique
  <2> QED BY <2>3, <2>5, <2>6
<1> QED BY <1>1, <1>2, <1>3, PTL DEF RecordsSpec, DisabledStays

-----------------------------------------------------------------------------
\* A setting is changed in memory and stored.
LEMMA SettingStored ==
  ASSUME NEW k \in PersistedConfigKeys, NEW v, memory = Overridden, SetSetting(k, v)
  PROVE  memory' = Overridden'
<1>1. DOMAIN Environment = PersistedConfigKeys
  BY ConfigAssumption
<1> QED BY <1>1 DEF SetSetting, Put, Overridden

\* A start reads the overrides and makes and stores a secret if there is none.
LEMMA SettingsLoaded ==
  ASSUME LoadSettings
  PROVE  /\ memory' = Overridden'
         /\ memory'.affinity = Secret
<1>1. DOMAIN Environment = PersistedConfigKeys
  BY ConfigAssumption
<1>2. "affinity" \in PersistedConfigKeys
  BY DEF PersistedConfigKeys
<1> QED BY <1>1, <1>2 DEF LoadSettings, Put, Overridden

\* A step other than a start leaves settings and secret alone, or changes one
\* setting, not the secret, in memory and database.
LEMMA SettingsMove ==
  ASSUME SettingsInv, [RecordsNext]_records
  PROVE  \/ LoadSettings /\ updates' = <<>>
         \/ UNCHANGED <<memory, stored>> /\ DOMAIN updates' \subseteq PersistedConfigKeys \ {"affinity"}
         \/ /\ \E k \in PersistedConfigKeys \ {"affinity"} : \E v : SetSetting(k, v)
            /\ DOMAIN updates' \subseteq PersistedConfigKeys \ {"affinity"}
<1>1. CASE Start
  BY <1>1 DEF Start, StartSettings
<1>2. CASE Crash
  BY <1>2 DEF Crash
<1>3. CASE AdminCall
  <2>1. CASE UNCHANGED config
    BY <2>1 DEF config, SettingsInv
  <2>2. ASSUME NEW patch \in Patches, PatchConfig(patch)
        PROVE  /\ UNCHANGED <<memory, stored>>
               /\ DOMAIN updates' \subseteq PersistedConfigKeys \ {"affinity"}
    BY <2>2, RecordsAssumption DEF PatchConfig
  <2>3. "proxyKeys" \in PersistedConfigKeys \ {"affinity"}
    BY DEF PersistedConfigKeys
  <2>4. CASE GenerateProxyKey
    BY <2>3, <2>4 DEF GenerateProxyKey, StoreProxyKeys, SettingsInv
  <2>5. ASSUME NEW key \in memory.proxyKeys, DeleteProxyKey(key)
        PROVE  /\ SetSetting("proxyKeys", memory.proxyKeys \ {key})
               /\ UNCHANGED updates
    BY <2>5 DEF DeleteProxyKey, StoreProxyKeys
  <2> QED BY <1>3, <2>1, <2>2, <2>3, <2>4, <2>5 DEF AdminCall, ConfigCall, SettingsInv
<1>4. CASE HandlerStep
  <2>1. CASE UNCHANGED config
    BY <2>1 DEF config, SettingsInv
  <2>2. CASE PatchStep
    BY <2>2 DEF PatchStep, SettingsInv
  <2> QED BY <1>4, <2>1, <2>2 DEF HandlerStep
<1>5. CASE LogRequest
  BY <1>5 DEF LogRequest, config, SettingsInv
<1>6. CASE UNCHANGED records
  BY <1>6 DEF records, SettingsInv
<1> QED BY <1>1, <1>2, <1>3, <1>4, <1>5, <1>6 DEF RecordsNext

\* Memory and database stay in step.
LEMMA SettingsStep ==
  ASSUME SettingsInv, [RecordsNext]_records
  PROVE  SettingsInv'
<1>1. CASE LoadSettings /\ updates' = <<>>
  BY <1>1, SettingsLoaded DEF SettingsInv
<1>2. CASE UNCHANGED <<memory, stored>> /\ DOMAIN updates' \subseteq PersistedConfigKeys \ {"affinity"}
  BY <1>2 DEF SettingsInv, Overridden
<1>3. CASE /\ \E k \in PersistedConfigKeys \ {"affinity"} : \E v : SetSetting(k, v)
           /\ DOMAIN updates' \subseteq PersistedConfigKeys \ {"affinity"}
  BY <1>3, SettingStored DEF SettingsInv
<1> QED BY <1>1, <1>2, <1>3, SettingsMove

\* The environment is what an empty table of settings leaves in force.
LEMMA SettingsStart ==
  ASSUME RecordsInit
  PROVE  SettingsInv
<1>1. stored = <<>> /\ updates = <<>> /\ memory = Environment
  BY DEF RecordsInit, ConfigInit
<1>2. Overridden = [k \in DOMAIN Environment |-> Environment[k]]
  BY <1>1 DEF Overridden
<1>3. Environment = [k \in DOMAIN Environment |-> Environment[k]]
  BY ConfigAssumption
<1> QED BY <1>1, <1>2, <1>3 DEF SettingsInv

\* A restart at any moment brings back the settings the process ran with
\* (platform/runtime_config.py, products/admin/config.py).
THEOREM SettingsStayPersisted == RecordsSpec => []SettingsPersisted
<1>1. RecordsInit => SettingsInv
  BY SettingsStart
<1>2. SettingsInv /\ [RecordsNext]_records => SettingsInv'
  BY SettingsStep
<1>3. SettingsInv => SettingsPersisted
  BY DEF SettingsInv, SettingsPersisted
<1> QED BY <1>1, <1>2, <1>3, PTL DEF RecordsSpec

\* Once there is a secret that maps clients to keys, no restart and no call
\* changes it (platform/runtime_config.py:43).
THEOREM SecretNeverChanges == RecordsSpec => AffinityStable
<1>1. RecordsInit => SettingsInv
  BY SettingsStart
<1>2. SettingsInv /\ [RecordsNext]_records => SettingsInv'
  BY SettingsStep
<1>3. ASSUME SettingsInv, [RecordsNext]_records, memory.affinity # NoValue
      PROVE  memory'.affinity = memory.affinity
  <2>1. CASE LoadSettings
    BY <1>3, <2>1, SettingsLoaded DEF SettingsInv, Secret
  <2>2. ASSUME NEW k \in PersistedConfigKeys \ {"affinity"}, NEW v, SetSetting(k, v)
        PROVE  memory'.affinity = memory.affinity
    <3>1. DOMAIN Environment = PersistedConfigKeys
      BY ConfigAssumption
    <3>2. "affinity" \in DOMAIN memory
      BY <1>3, <3>1 DEF SettingsInv, Overridden, PersistedConfigKeys
    <3> QED BY <2>2, <3>2 DEF SetSetting, Put
  <2> QED BY <1>3, <2>1, <2>2, SettingsMove
<1> QED BY <1>1, <1>2, <1>3, PTL DEF RecordsSpec, AffinityStable

-----------------------------------------------------------------------------
(* The request log.                                                        *)

\* What a row adds to a column.
Weigh(row, c) ==
  CASE c = "requests"  -> 1
    [] c = "errors"    -> IF SqlError(row) THEN 1 ELSE 0
    [] c = "tokens"    -> row.tokens
    [] c = "estimated" -> IF row.estimated THEN row.tokens ELSE 0
Weight(c) == [row \in LoggedRows |-> Weigh(row, c)]

\* They are integers that are never negative.
LEMMA WeightsAre ==
  /\ \A row \in LoggedRows :
       /\ Weight("requests")[row] = 1
       /\ Weight("errors")[row] = IF SqlError(row) THEN 1 ELSE 0
       /\ Weight("tokens")[row] = row.tokens
       /\ Weight("estimated")[row] = IF row.estimated THEN row.tokens ELSE 0
  /\ \A c \in Columns :
       /\ Weight(c) \in [LoggedRows -> Int]
       /\ \A row \in LoggedRows : Weight(c)[row] \in Int /\ Weight(c)[row] >= 0
<1>1. \A row \in LoggedRows :
       /\ Weight("requests")[row] = 1
       /\ Weight("errors")[row] = IF SqlError(row) THEN 1 ELSE 0
       /\ Weight("tokens")[row] = row.tokens
       /\ Weight("estimated")[row] = IF row.estimated THEN row.tokens ELSE 0
  BY DEF Weight, Weigh
<1>2. \A row \in LoggedRows : row.tokens \in Nat
  BY RowsAssumption
<1>3. \A c \in Columns : \A row \in LoggedRows : Weight(c)[row] \in Int /\ Weight(c)[row] >= 0
  BY <1>1, <1>2 DEF Columns
<1>4. \A c \in Columns : Weight(c) \in [LoggedRows -> Int]
  <2> SUFFICES ASSUME NEW c \in Columns PROVE Weight(c) \in [LoggedRows -> Int]
    OBVIOUS
  <2> QED BY <1>3 DEF Weight
<1> QED BY <1>1, <1>3, <1>4

\* A row's tokens, added up.
LEMMA TokensTotal ==
  ASSUME NEW E, NEW s \in Seq(E), NEW W \in [E -> Int], \A e \in E : W[e] = e.tokens
  PROVE  FoldLeft(LAMBDA n, row : n + row.tokens, 0, s) = TotalOf(s, W)
<1> DEFINE rule(it) == [S \in SUBSET DOMAIN s |->
                          IF S = {} THEN 0 ELSE it[S \ {Max(S)}] + s[Max(S)].tokens]
           fold == CHOOSE it : it = rule(it)
<1>1. FoldLeft(LAMBDA n, row : n + row.tokens, 0, s) = fold[DOMAIN s]
  BY DEF FoldLeft, MapThenFoldSet
<1>2. \A S \in SUBSET DOMAIN s : S # {} => W[s[Max(S)]] = s[Max(S)].tokens
  <2> SUFFICES ASSUME NEW S \in SUBSET DOMAIN s, S # {}
               PROVE  W[s[Max(S)]] = s[Max(S)].tokens
    OBVIOUS
  <2>1. Len(s) \in Nat /\ S \in SUBSET (1 .. Len(s))
    OBVIOUS
  <2>2. Max(S) \in DOMAIN s
    BY <2>1, LargestIn
  <2> QED BY <2>2
<1>4. PICK g \in [SUBSET DOMAIN s -> Int] : AddsUp(g, s, W)
  BY FoldTotal
<1>5. g = rule(g)
  BY <1>2, <1>4 DEF AddsUp
<1>6. fold = rule(fold)
  <2> HIDE DEF rule
  <2> QED BY <1>5
<1>7. AddsUpIn(fold, s, W)
  <2> HIDE DEF fold
  <2> QED BY <1>2, <1>6 DEF AddsUpIn
<1>8. fold[DOMAIN s] = TotalOf(s, W)
  <2> HIDE DEF fold
  <2> QED BY <1>7, FoldTotal
<1> QED BY <1>1, <1>8

\* Those of rows that are estimated.
LEMMA EstimatedTotal ==
  ASSUME NEW s \in Seq(LoggedRows)
  PROVE  FoldLeft(LAMBDA n, row : IF row.estimated THEN n + row.tokens ELSE n, 0, s)
           = TotalOf(s, Weight("estimated"))
<1> DEFINE W == Weight("estimated")
           add(n, row) == IF row.estimated THEN n + row.tokens ELSE n
           rule(it) == [S \in SUBSET DOMAIN s |->
                          IF S = {} THEN 0 ELSE add(it[S \ {Max(S)}], s[Max(S)])]
           fold == CHOOSE it : it = rule(it)
<1>1. FoldLeft(LAMBDA n, row : IF row.estimated THEN n + row.tokens ELSE n, 0, s) = fold[DOMAIN s]
  BY DEF FoldLeft, MapThenFoldSet
<1>2. W \in [LoggedRows -> Int]
  BY WeightsAre DEF Columns
<1>3. \A S \in SUBSET DOMAIN s : S # {} =>
        \A n \in Int : add(n, s[Max(S)]) = n + W[s[Max(S)]]
  <2> SUFFICES ASSUME NEW S \in SUBSET DOMAIN s, S # {}, NEW n \in Int
               PROVE  add(n, s[Max(S)]) = n + W[s[Max(S)]]
    OBVIOUS
  <2>1. Len(s) \in Nat /\ S \in SUBSET (1 .. Len(s))
    OBVIOUS
  <2>2. Max(S) \in DOMAIN s
    BY <2>1, LargestIn
  <2>3. s[Max(S)] \in LoggedRows
    BY <2>2
  <2> QED BY <2>3, WeightsAre
<1> HIDE DEF W, add
<1>4. PICK g \in [SUBSET DOMAIN s -> Int] : AddsUp(g, s, W)
  BY <1>2, FoldTotal
<1>5. g = rule(g)
  <2>1. \A S \in SUBSET DOMAIN s : g[S \ {Max(S)}] \in Int
    OBVIOUS
  <2> QED BY <1>3, <1>4, <2>1 DEF AddsUp
<1>6. fold = rule(fold)
  <2> HIDE DEF rule
  <2> QED BY <1>5
<1>7. AddsUpIn(fold, s, W)
  <2> HIDE DEF fold
  <2> QED BY <1>3, <1>6 DEF AddsUpIn
<1>8. fold[DOMAIN s] = TotalOf(s, W)
  <2> HIDE DEF fold
  <2> QED BY <1>2, <1>7, FoldTotal
<1> QED BY <1>1, <1>8 DEF W, add

\* The sums of a query, as totals.
LEMMA SumsAreTotals ==
  ASSUME NEW s \in Seq(LoggedRows)
  PROVE  /\ DOMAIN SqlSums(s) = Columns
         /\ \A c \in Columns : SqlSums(s)[c] = TotalOf(s, Weight(c)) /\ SqlSums(s)[c] \in Int
<1>1. Len(s) = TotalOf(s, Weight("requests"))
  <2>1. Weight("requests") \in [LoggedRows -> Int]
        /\ \A row \in LoggedRows : Weight("requests")[row] = 1
    BY WeightsAre DEF Columns
  <2> QED BY <2>1, TotalOnes
<1>2. Len(Errors(s)) = TotalOf(s, Weight("errors"))
  <2>1. PICK R : R = {row \in LoggedRows : SqlError(row)}
    OBVIOUS
  <2>2. PICK ones : ones = Weight("requests")
    OBVIOUS
  <2>3. ones \in [LoggedRows -> Int] /\ \A row \in LoggedRows : ones[row] = 1
    BY <2>2, WeightsAre DEF Columns
  <2>4. {i \in DOMAIN s : SqlError(s[i])} = {i \in DOMAIN s : s[i] \in R}
    <3>1. \A i \in DOMAIN s : s[i] \in LoggedRows
      OBVIOUS
    <3> QED BY <2>1, <3>1
  <2>5. Errors(s) = KeptOf(s, R)
    BY <2>4 DEF Errors, KeptOf
  <2>6. KeptOf(s, R) \in Seq(LoggedRows)
    <3>1. KeptOf(s, R) \in Seq(LoggedRows \cap R) /\ LoggedRows \cap R \subseteq LoggedRows
      BY KeptIn
    <3> QED BY <3>1
  <2>7. Len(KeptOf(s, R)) = TotalOf(KeptOf(s, R), ones)
    BY <2>3, <2>6, TotalOnes
  <2>8. /\ Only(ones, R) \in [LoggedRows -> Int]
        /\ TotalOf(KeptOf(s, R), ones) = TotalOf(s, Only(ones, R))
    BY <2>3, TotalKept
  <2>9. Weight("errors") \in [LoggedRows -> Int]
    BY WeightsAre DEF Columns
  <2>10. \A i \in DOMAIN s : Only(ones, R)[s[i]] = Weight("errors")[s[i]]
    <3> SUFFICES ASSUME NEW i \in DOMAIN s PROVE Only(ones, R)[s[i]] = Weight("errors")[s[i]]
      OBVIOUS
    <3>1. s[i] \in LoggedRows
      OBVIOUS
    <3>2. Weight("errors")[s[i]] = IF SqlError(s[i]) THEN 1 ELSE 0
      BY <3>1, WeightsAre
    <3>3. Only(ones, R)[s[i]] = IF s[i] \in R THEN 1 ELSE 0
      BY <2>3, <3>1 DEF Only
    <3> QED BY <2>1, <3>1, <3>2, <3>3
  <2>11. TotalOf(s, Only(ones, R)) = TotalOf(s, Weight("errors"))
    BY <2>8, <2>9, <2>10, TotalSame
  <2> QED BY <2>5, <2>7, <2>8, <2>11
<1>3. /\ DOMAIN SqlSums(s) = Columns
      /\ SqlSums(s)["requests"] = TotalOf(s, Weight("requests"))
      /\ SqlSums(s)["errors"] = TotalOf(s, Weight("errors"))
      /\ SqlSums(s)["tokens"] = TotalOf(s, Weight("tokens"))
      /\ SqlSums(s)["estimated"] = TotalOf(s, Weight("estimated"))
  <2>1. /\ Weight("tokens") \in [LoggedRows -> Int]
        /\ \A row \in LoggedRows : Weight("tokens")[row] = row.tokens
    BY WeightsAre DEF Columns
  <2>2. FoldLeft(LAMBDA n, row : n + row.tokens, 0, s) = TotalOf(s, Weight("tokens"))
    BY <2>1, TokensTotal
  <2> QED BY <1>1, <1>2, <2>2, EstimatedTotal DEF SqlSums, Sums, Columns
<1>4. \A c \in Columns : SqlSums(s)[c] = TotalOf(s, Weight(c))
  BY <1>3 DEF Columns
<1>5. \A c \in Columns : TotalOf(s, Weight(c)) \in Int
  <2>1. \A c \in Columns : Weight(c) \in [LoggedRows -> Int]
    BY WeightsAre
  <2> QED BY <2>1, TotalIs
<1> QED BY <1>3, <1>4, <1>5

\* The elements with a value in a field: those of a list, and their total.
Having(E, field, v) == {e \in E : e[field] = v}

\* A query by a field is a filter by what a row is.
LEMMA RowsOfField ==
  ASSUME NEW E, NEW s \in Seq(E), NEW field, NEW v
  PROVE  /\ RowsOf(s, field, v) = KeptOf(s, Having(E, field, v))
         /\ RowsOf(s, field, v) \in Seq(E)
         /\ \A W \in [E -> Int] :
              TotalOf(RowsOf(s, field, v), W) = TotalOf(s, Only(W, Having(E, field, v)))
<1> DEFINE R == Having(E, field, v)
<1>1. {i \in DOMAIN s : s[i][field] = v} = {i \in DOMAIN s : s[i] \in R}
  <2>1. \A i \in DOMAIN s : s[i] \in E
    OBVIOUS
  <2> QED BY <2>1 DEF Having
<1> HIDE DEF R
<1>2. RowsOf(s, field, v) = KeptOf(s, R)
  BY <1>1 DEF RowsOf, KeptOf
<1>3. KeptOf(s, R) \in Seq(E)
  <2>1. KeptOf(s, R) \in Seq(E \cap R) /\ E \cap R \subseteq E
    BY KeptIn
  <2> QED BY <2>1
<1>4. \A W \in [E -> Int] : TotalOf(KeptOf(s, R), W) = TotalOf(s, Only(W, R))
  BY TotalKept
<1> QED BY <1>2, <1>3, <1>4 DEF R

\* What the sum of a column over all parts is.
LEMMA SumOfParts ==
  ASSUME NEW parts, NEW c, NEW part, \A v \in DOMAIN parts : part[v] = parts[v][c],
         NEW total, \E it : SumsUp(it, DOMAIN parts, part),
         \A it : SumsUp(it, DOMAIN parts, part) => it[DOMAIN parts] = total
  PROVE  SumOf(parts, c) = total
<1> DEFINE rule(it) == [S \in SUBSET DOMAIN parts |->
             IF S = {} THEN 0
             ELSE parts[CHOOSE x \in S : TRUE][c] + it[S \ {CHOOSE x \in S : TRUE}]]
           fold == CHOOSE it : it = rule(it)
<1>1. SumOf(parts, c) = fold[DOMAIN parts]
  BY DEF SumOf, MapThenSumSet, MapThenFoldSet
<1>2. \A it : it = rule(it) <=> SumsUp(it, DOMAIN parts, part)
  <2>1. \A S \in SUBSET DOMAIN parts : S # {} =>
          part[CHOOSE x \in S : TRUE] = parts[CHOOSE x \in S : TRUE][c]
    OBVIOUS
  <2> SUFFICES ASSUME NEW it
               PROVE  rule(it) = [S \in SUBSET DOMAIN parts |->
                        IF S = {} THEN 0
                        ELSE part[CHOOSE x \in S : TRUE] + it[S \ {CHOOSE x \in S : TRUE}]]
    BY DEF SumsUp
  <2> QED BY <2>1
<1>3. fold = rule(fold)
  <2> HIDE DEF rule
  <2>1. \E it : it = rule(it)
    <3>1. PICK it : SumsUp(it, DOMAIN parts, part)
      OBVIOUS
    <3> QED BY <1>2, <3>1
  <2> QED BY <2>1
<1>4. SumsUp(fold, DOMAIN parts, part)
  <2> HIDE DEF fold
  <2> QED BY <1>2, <1>3, Zenon
<1> HIDE DEF fold
<1> QED BY <1>1, <1>4

\* The groups of a list by a field, and in a column of each the total of its rows.
Grouped(parts, s, field, c, W) ==
  /\ DOMAIN parts = {s[i][field] : i \in DOMAIN s}
  /\ \A v \in DOMAIN parts : parts[v][c] = TotalOf(RowsOf(s, field, v), W)

\* They are the parts of a total.
LEMMA GroupsTotal ==
  ASSUME NEW E, NEW s, s \in Seq(E), NEW W, W \in [E -> Int], NEW field, NEW c,
         NEW parts, Grouped(parts, s, field, c, W)
  PROVE  SumOf(parts, c) = TotalOf(s, W)
<1>0. /\ DOMAIN parts = {s[i][field] : i \in DOMAIN s}
      /\ \A v \in DOMAIN parts : parts[v][c] = TotalOf(RowsOf(s, field, v), W)
  BY DEF Grouped
<1>1. PICK V : V = DOMAIN parts
  OBVIOUS
<1>2. IsFiniteSet(V)
  <2>1. PICK n \in Nat : n = Len(s) /\ DOMAIN s = 1 .. n
    OBVIOUS
  <2>2. PICK f : f = [i \in 1 .. n |-> s[i][field]]
    OBVIOUS
  <2>3. V = {f[i] : i \in 1 .. n}
    BY <1>0, <1>1, <2>1, <2>2
  <2> QED BY <2>1, <2>3, ValuesFinite
<1>3. PICK label : label = [e \in E |-> e[field]]
  OBVIOUS
<1>4. \A i \in DOMAIN s : label[s[i]] \in V
  <2>1. \A i \in DOMAIN s : s[i] \in E
    OBVIOUS
  <2> QED BY <1>0, <1>1, <1>3, <2>1
<1>5. PICK part : part = [v \in V |-> parts[v][c]]
  OBVIOUS
<1>6. \A v \in V : part[v] = TotalOf(s, Only(W, Labelled(E, label, v)))
  <2> SUFFICES ASSUME NEW v \in V PROVE part[v] = TotalOf(s, Only(W, Labelled(E, label, v)))
    OBVIOUS
  <2>1. Having(E, field, v) = Labelled(E, label, v)
    BY <1>3 DEF Having, Labelled
  <2>2. TotalOf(RowsOf(s, field, v), W) = TotalOf(s, Only(W, Having(E, field, v)))
    BY RowsOfField
  <2> QED BY <1>0, <1>1, <1>5, <2>1, <2>2
<1>7. /\ \E it : SumsUp(it, V, part)
      /\ \A it : SumsUp(it, V, part) => it[V] = TotalOf(s, W)
  BY ONLY s \in Seq(E), W \in [E -> Int], <1>2, <1>4, <1>6, PartsTotal
<1> QED BY <1>1, <1>5, <1>7, SumOfParts

\* The groups of a page add up, in every column, to the sums over all its rows.
LEMMA GroupsAddUp ==
  ASSUME NEW s \in Seq(LoggedRows), NEW field
  PROVE  PartsAddUp(GroupBy(s, field), SqlSums(s))
<1> SUFFICES ASSUME NEW c \in Columns
             PROVE  SumOf(GroupBy(s, field), c) = SqlSums(s)[c]
  BY SumsAreTotals DEF PartsAddUp
<1>1. PICK W : W = Weight(c)
  OBVIOUS
<1>2. W \in [LoggedRows -> Int]
  BY <1>1, WeightsAre
<1>3. PICK parts : parts = GroupBy(s, field)
  OBVIOUS
<1>4. /\ DOMAIN parts = {s[i][field] : i \in DOMAIN s}
      /\ \A v \in DOMAIN parts : parts[v] = SqlSums(RowsOf(s, field, v))
  BY <1>3 DEF GroupBy
<1>5. \A v \in DOMAIN parts : parts[v][c] = TotalOf(RowsOf(s, field, v), W)
  BY <1>1, <1>4, RowsOfField, SumsAreTotals
<1>6. Grouped(parts, s, field, c, W)
  BY <1>4, <1>5 DEF Grouped
<1>7. SumOf(parts, c) = TotalOf(s, W)
  BY ONLY s \in Seq(LoggedRows), <1>2, <1>6, GroupsTotal
<1> QED BY <1>1, <1>3, <1>7, SumsAreTotals

\* How many rows a filter keeps.
LEMMA LengthKept ==
  ASSUME NEW s \in Seq(LoggedRows), NEW R
  PROVE  /\ KeptOf(s, R) \in Seq(LoggedRows)
         /\ Len(KeptOf(s, R)) = TotalOf(s, Only(Weight("requests"), R))
<1>1. PICK ones : ones = Weight("requests")
  OBVIOUS
<1>2. ones \in [LoggedRows -> Int] /\ \A row \in LoggedRows : ones[row] = 1
  BY <1>1, WeightsAre DEF Columns
<1>3. KeptOf(s, R) \in Seq(LoggedRows)
  <2>1. KeptOf(s, R) \in Seq(LoggedRows \cap R) /\ LoggedRows \cap R \subseteq LoggedRows
    BY KeptIn
  <2> QED BY <2>1
<1>4. Len(KeptOf(s, R)) = TotalOf(KeptOf(s, R), ones)
  BY <1>2, <1>3, TotalOnes
<1>5. TotalOf(KeptOf(s, R), ones) = TotalOf(s, Only(ones, R))
  BY <1>2, TotalKept
<1> QED BY <1>1, <1>3, <1>4, <1>5

\* A request is an error or has succeeded.
LEMMA SuccessesAndErrors ==
  ASSUME NEW s \in Seq(LoggedRows)
  PROVE  Len(Where(s, {i \in DOMAIN s : Succeeded(s[i])})) + Len(Errors(s)) = Len(s)
<1>1. PICK R : R = {row \in LoggedRows : Succeeded(row)}
  OBVIOUS
<1>2. {i \in DOMAIN s : Succeeded(s[i])} = {i \in DOMAIN s : s[i] \in R}
  <2>1. \A i \in DOMAIN s : s[i] \in LoggedRows
    OBVIOUS
  <2> QED BY <1>1, <2>1
<1>3. Where(s, {i \in DOMAIN s : Succeeded(s[i])}) = KeptOf(s, R)
  BY <1>2 DEF KeptOf
<1>4. PICK ones, good, bad : /\ ones = Weight("requests") /\ bad = Weight("errors")
                             /\ good = Only(ones, R)
  OBVIOUS
<1>5. /\ ones \in [LoggedRows -> Int] /\ bad \in [LoggedRows -> Int]
      /\ \A row \in LoggedRows : ones[row] = 1
      /\ \A row \in LoggedRows : bad[row] = IF SqlError(row) THEN 1 ELSE 0
  BY <1>4, WeightsAre DEF Columns
<1>6. good \in [LoggedRows -> Int]
      /\ \A row \in LoggedRows : good[row] = IF row \in R THEN 1 ELSE 0
  BY <1>4, <1>5 DEF Only
<1>7. \A row \in LoggedRows : Succeeded(row) <=> ~SqlError(row)
  <2>1. \A row \in LoggedRows : row.status \in Nat
    BY RowsAssumption
  <2> QED BY <2>1 DEF Succeeded, SqlError, NoStatus
<1>8. \A row \in LoggedRows : ones[row] = good[row] + bad[row]
  BY <1>1, <1>5, <1>6, <1>7
<1>9. TotalOf(s, ones) = TotalOf(s, good) + TotalOf(s, bad)
  <2>1. ones \in [LoggedRows -> Int] /\ good \in [LoggedRows -> Int] /\ bad \in [LoggedRows -> Int]
    BY <1>5, <1>6
  <2> QED BY ONLY s \in Seq(LoggedRows), <1>8, <2>1, TotalSplit
<1>10. Len(s) = TotalOf(s, ones)
  BY <1>5, TotalOnes
<1>11. Len(KeptOf(s, R)) = TotalOf(s, good)
  BY <1>4, LengthKept
<1>12. Len(Errors(s)) = TotalOf(s, bad)
  <2>1. SqlSums(s)["errors"] = TotalOf(s, bad)
    BY <1>4, SumsAreTotals DEF Columns
  <2> QED BY <2>1 DEF SqlSums, Sums
<1> QED BY <1>3, <1>9, <1>10, <1>11, <1>12

\* The rows with a value in a field: those with one of these values are the same.
LEMMA KnownRows ==
  ASSUME NEW s \in Seq(LoggedRows), NEW field
  PROVE  /\ Known(s, field) \in Seq(LoggedRows)
         /\ \A i \in DOMAIN Known(s, field) : Known(s, field)[i][field] # None
         /\ \A i \in DOMAIN s : s[i][field] # None =>
              \E j \in DOMAIN Known(s, field) : Known(s, field)[j] = s[i]
         /\ \A v : v # None => RowsOf(Known(s, field), field, v) = RowsOf(s, field, v)
<1> DEFINE R == {row \in LoggedRows : row[field] # None}
<1>1. {i \in DOMAIN s : s[i][field] # None} = {i \in DOMAIN s : s[i] \in R}
  <2>1. \A i \in DOMAIN s : s[i] \in LoggedRows
    OBVIOUS
  <2> QED BY <2>1
<1>2. Known(s, field) = KeptOf(s, R)
  BY <1>1 DEF Known, KeptOf
<1>3. Known(s, field) \in Seq(LoggedRows \cap R)
  BY <1>2, KeptIn
<1>4. Known(s, field) \in Seq(LoggedRows)
  BY <1>2, LengthKept
<1>5. \A i \in DOMAIN Known(s, field) : Known(s, field)[i][field] # None
  BY <1>3
<1>6. \A i \in DOMAIN s : s[i][field] # None =>
        \E j \in DOMAIN Known(s, field) : Known(s, field)[j] = s[i]
  <2>1. \A i \in DOMAIN s : s[i][field] # None => s[i] \in R
    OBVIOUS
  <2> HIDE DEF R
  <2>2. \A i \in DOMAIN s : s[i] \in R =>
          \E j \in DOMAIN KeptOf(s, R) : KeptOf(s, R)[j] = s[i]
    BY KeptAll
  <2> QED BY <1>2, <2>1, <2>2
<1>7. ASSUME NEW v, v # None
      PROVE  RowsOf(Known(s, field), field, v) = RowsOf(s, field, v)
  <2>1. R \cap Having(LoggedRows, field, v) = Having(LoggedRows, field, v)
    BY <1>7 DEF Having
  <2> HIDE DEF R
  <2>2. RowsOf(s, field, v) = KeptOf(s, Having(LoggedRows, field, v))
    BY RowsOfField
  <2>3. RowsOf(Known(s, field), field, v) = KeptOf(Known(s, field), Having(LoggedRows, field, v))
    BY <1>4, RowsOfField
  <2>4. KeptOf(KeptOf(s, R), Having(LoggedRows, field, v))
          = KeptOf(s, R \cap Having(LoggedRows, field, v))
    BY KeptTwice
  <2> QED BY <1>2, <2>1, <2>2, <2>3, <2>4
<1> QED BY <1>4, <1>5, <1>6, <1>7

\* The groups of the rows with a value in a field: their values, and how many
\* rows each has.
LEMMA GroupsOfKnown ==
  ASSUME NEW s \in Seq(LoggedRows), NEW field
  PROVE  LET groups == GroupBy(Known(s, field), field)
         IN  /\ IsFiniteSet(DOMAIN groups)
             /\ \A i \in DOMAIN s : s[i][field] # None => s[i][field] \in DOMAIN groups
             /\ \A v \in DOMAIN groups :
                  v # None /\ groups[v].requests = Len(RowsOf(s, field, v))
<1>1. PICK known : known = Known(s, field)
  OBVIOUS
<1>2. PICK groups : groups = GroupBy(known, field)
  OBVIOUS
<1>3. /\ known \in Seq(LoggedRows)
      /\ \A i \in DOMAIN known : known[i][field] # None
      /\ \A i \in DOMAIN s : s[i][field] # None => \E j \in DOMAIN known : known[j] = s[i]
      /\ \A v : v # None => RowsOf(known, field, v) = RowsOf(s, field, v)
  BY <1>1, KnownRows
<1>4. /\ DOMAIN groups = {known[i][field] : i \in DOMAIN known}
      /\ \A v \in DOMAIN groups : groups[v] = SqlSums(RowsOf(known, field, v))
  BY <1>2 DEF GroupBy
<1>5. IsFiniteSet(DOMAIN groups)
  <2>1. PICK n \in Nat : DOMAIN known = 1 .. n
    BY <1>3
  <2>2. PICK f : f = [i \in 1 .. n |-> known[i][field]]
    OBVIOUS
  <2>3. DOMAIN groups = {f[i] : i \in 1 .. n}
    BY <1>4, <2>1, <2>2
  <2> QED BY <2>1, <2>3, ValuesFinite
<1>6. \A i \in DOMAIN s : s[i][field] # None => s[i][field] \in DOMAIN groups
  BY <1>3, <1>4
<1>7. ASSUME NEW v \in DOMAIN groups
      PROVE  v # None /\ groups[v].requests = Len(RowsOf(s, field, v))
  <2>1. v # None
    BY <1>3, <1>4
  <2>2. groups[v] = SqlSums(RowsOf(s, field, v))
    BY <1>3, <1>4, <2>1
  <2>3. PICK rows : rows = RowsOf(s, field, v)
    OBVIOUS
  <2>4. SqlSums(rows).requests = Len(rows)
    BY DEF SqlSums, Sums
  <2> QED BY <2>1, <2>2, <2>3, <2>4
<1>8. groups = GroupBy(Known(s, field), field)
  BY <1>1, <1>2
<1> QED BY <1>5, <1>6, <1>7, <1>8

\* Every row, when there are no more than asked for.
LEMMA AllRowsListed ==
  ASSUME NEW s \in Seq(LoggedRows), NEW n \in Nat, Len(s) <= n
  PROVE  NewestRows(s, n) = s
<1>1. Len(s) \in Nat
  OBVIOUS
<1>2. ~(n < Len(s))
  BY <1>1
<1>3. NewestRows(s, n) = SubSeq(s, 1, Len(s))
  BY <1>2, Zenon DEF NewestRows
<1> QED BY <1>3

\* The pages over the rows of the log agree.
LEMMA UsagesAddUp == ASSUME log.rows \in Seq(LoggedRows) PROVE UsageAddsUp
<1> SUFFICES ASSUME NEW key PROVE LET usage == KeyUsage(log, key)
                                  IN  usage.successes + usage.failures = usage.requests
  BY DEF UsageAddsUp
<1>1. PICK rows : rows = RowsOf(log.rows, "key", key)
  OBVIOUS
<1>2. rows \in Seq(LoggedRows)
  BY <1>1, RowsOfField
<1>3. Len(Where(rows, {i \in DOMAIN rows : Succeeded(rows[i])})) + Len(Errors(rows)) = Len(rows)
  BY <1>2, SuccessesAndErrors
<1> QED BY <1>1, <1>3 DEF KeyUsage

\* The parts of an estimate of costs add up.
LEMMA CostsAddUp == ASSUME log.rows \in Seq(LoggedRows) PROVE EstimatesAddUp
BY GroupsAddUp DEF EstimatesAddUp, CostEstimate

\* Models, keys and clients have the same numbers on every page.
LEMMA PagesListAlike == ASSUME log.rows \in Seq(LoggedRows) PROVE ListsAgree
<1>1. PICK rows : rows = log.rows
  OBVIOUS
<1>2. rows \in Seq(LoggedRows) /\ Len(rows) \in Nat
  BY <1>1
<1>3. PICK aliases, keys, clients : /\ aliases = ByModel(rows) /\ keys = ByKey(rows)
                                    /\ clients = Sticky(rows)
  OBVIOUS
<1>4. PartsAddUp(aliases, SqlSums(Known(rows, "alias")))
  <2>1. Known(rows, "alias") \in Seq(LoggedRows)
    BY <1>2, KnownRows
  <2> QED BY <1>3, <2>1, GroupsAddUp DEF ByModel
<1>5. ASSUME NEW a \in DOMAIN aliases
      PROVE  Len(ListRequestLogs(log, Len(rows), a, None)) = aliases[a].requests
  <2>1. a # None /\ aliases[a].requests = Len(RowsOf(rows, "alias", a))
    BY <1>2, <1>3, GroupsOfKnown DEF ByModel
  <2>2. {i \in DOMAIN rows : /\ a = None \/ rows[i].alias = a
                             /\ None = None \/ rows[i].error = None}
          = {i \in DOMAIN rows : rows[i]["alias"] = a}
    BY <2>1
  <2>3. ListRequestLogs(log, Len(rows), a, None)
          = NewestRows(RowsOf(rows, "alias", a), Len(rows))
    BY <1>1, <2>2 DEF ListRequestLogs, RowsOf
  <2>4. RowsOf(rows, "alias", a) \in Seq(LoggedRows)
        /\ Len(RowsOf(rows, "alias", a)) <= Len(rows)
    BY <1>2, RowsOfField, KeptShorter
  <2> QED BY <1>2, <2>1, <2>3, <2>4, AllRowsListed
<1>6. \A k \in DOMAIN keys : keys[k].requests = KeyUsage(log, k).requests
  BY <1>1, <1>2, <1>3, GroupsOfKnown DEF ByKey, KeyUsage
<1>7. ASSUME NEW c \in DOMAIN clients, clients[c] = "dispersed"
      PROVE  Cardinality(DOMAIN keys) > 1
  <2>1. ~(Cardinality(KeysUsed(rows, c)) <= 1)
    BY <1>3, <1>7 DEF Sticky
  <2>2. KeysUsed(rows, c) \subseteq DOMAIN keys
    BY <1>2, <1>3, GroupsOfKnown DEF ByKey, KeysUsed
  <2>3. IsFiniteSet(DOMAIN keys)
    BY <1>2, <1>3, GroupsOfKnown DEF ByKey
  <2>4. /\ Cardinality(KeysUsed(rows, c)) \in Nat /\ Cardinality(DOMAIN keys) \in Nat
        /\ Cardinality(KeysUsed(rows, c)) <= Cardinality(DOMAIN keys)
    BY <2>2, <2>3, FS_Subset, FS_CardinalityType
  <2> QED BY <2>1, <2>4
<1> QED BY <1>1, <1>3, <1>4, <1>5, <1>6, <1>7 DEF ListsAgree

\* The numbers of a list of metrics, as totals.
Ones == [row \in Metrics |-> 1]
TokensOf == [row \in Metrics |-> row.tokens]
CountOf(c) == IF c = "rows" THEN Ones ELSE TokensOf

\* What a billing summary counts are totals.
LEMMA CountsAreTotals ==
  ASSUME NEW s \in Seq(Metrics)
  PROVE  /\ DOMAIN BillingCount(s) = {"rows", "tokens"}
         /\ \A c \in {"rows", "tokens"} :
              CountOf(c) \in [Metrics -> Int] /\ BillingCount(s)[c] = TotalOf(s, CountOf(c))
<1>1. Ones \in [Metrics -> Int] /\ \A row \in Metrics : Ones[row] = 1
  BY DEF Ones
<1>2. TokensOf \in [Metrics -> Int] /\ \A row \in Metrics : TokensOf[row] = row.tokens
  <2>1. \A row \in Metrics : row.tokens \in Int
    BY RowsAssumption
  <2> QED BY <2>1 DEF TokensOf
<1>3. Len(s) = TotalOf(s, Ones)
  BY <1>1, TotalOnes
<1>4. FoldLeft(LAMBDA n, r : n + r.tokens, 0, s) = TotalOf(s, TokensOf)
  BY <1>2, TokensTotal
<1>5. /\ DOMAIN BillingCount(s) = {"rows", "tokens"}
      /\ BillingCount(s)["rows"] = TotalOf(s, Ones)
      /\ BillingCount(s)["tokens"] = TotalOf(s, TokensOf)
  BY <1>3, <1>4 DEF BillingCount
<1> QED BY <1>1, <1>2, <1>5 DEF CountOf

\* What is older than the newest rows.
OlderRows(s, n) == SubSeq(s, 1, Len(s) - Len(NewestRows(s, n)))

\* The newest rows are the end of the list, and as many as asked for unless
\* the list is shorter.
LEMMA NewestAreLast ==
  ASSUME NEW E, NEW s \in Seq(E), NEW n \in Nat
  PROVE  /\ OlderRows(s, n) \in Seq(E) /\ NewestRows(s, n) \in Seq(E)
         /\ s = OlderRows(s, n) \o NewestRows(s, n)
         /\ Len(NewestRows(s, n)) <= n
         /\ OlderRows(s, n) # <<>> => Len(NewestRows(s, n)) = n
<1>1. PICK m \in Nat : m = Len(s)
  OBVIOUS
<1>2. CASE n < m
  <2>1. NewestRows(s, n) = SubSeq(s, m - n + 1, m)
    BY <1>1, <1>2, Zenon DEF NewestRows
  <2>2. PICK k \in Nat : k = m - n /\ k \in 1 .. m
    BY <1>2
  <2>3. NewestRows(s, n) = SubSeq(s, k + 1, m)
    BY <2>1, <2>2
  <2>4. Len(SubSeq(s, k + 1, m)) = n
    BY <1>1, <2>2
  <2>5. SubSeq(s, 1, k) \in Seq(E) /\ SubSeq(s, k + 1, m) \in Seq(E)
    BY <1>1, <2>2
  <2>6. s = SubSeq(s, 1, k) \o SubSeq(s, k + 1, m)
    BY <1>1, <2>2
  <2>7. m - n = k
    BY <2>2
  <2>8. OlderRows(s, n) = SubSeq(s, 1, k)
    BY <1>1, <2>3, <2>4, <2>7, Zenon DEF OlderRows
  <2> QED BY <2>3, <2>4, <2>5, <2>6, <2>8
<1>3. CASE ~(n < m)
  <2>1. NewestRows(s, n) = SubSeq(s, 1, m)
    BY <1>1, <1>3, Zenon DEF NewestRows
  <2>2. NewestRows(s, n) = s
    BY <1>1, <2>1
  <2>3. m - m = 0
    OBVIOUS
  <2>4. OlderRows(s, n) = SubSeq(s, 1, 0)
    BY <1>1, <2>2, <2>3, Zenon DEF OlderRows
  <2>5. SubSeq(s, 1, 0) = <<>>
    OBVIOUS
  <2>6. s = <<>> \o s /\ <<>> \in Seq(E) /\ Len(s) <= n
    BY <1>1, <1>3
  <2> QED BY <2>2, <2>4, <2>5, <2>6
<1> QED BY <1>2, <1>3

\* The usages of a billing summary add up, and so do the imports it lists and
\* the older ones.
LEMMA BillsAddUp == ASSUME billing \in Seq(Seq(Metrics)) PROVE BillingAddsUp
<1>1. PICK rows, shown, older, usages, imports :
        /\ rows = FlattenSeq(billing)
        /\ shown = NewestRows(billing, RecentImports)
        /\ older = OlderRows(billing, RecentImports)
        /\ usages = BillingSummary(billing).usages
        /\ imports = BillingSummary(billing).imports
  OBVIOUS
<1>2. /\ DOMAIN usages = {rows[i]["usage"] : i \in DOMAIN rows}
      /\ \A u \in DOMAIN usages : usages[u] = BillingCount(RowsOf(rows, "usage", u))
      /\ BillingSummary(billing).totals = BillingCount(rows)
      /\ imports = [i \in DOMAIN shown |-> [rows |-> Len(shown[i])]]
  BY <1>1 DEF BillingSummary
<1>3. PICK W : W = [t \in Seq(Metrics) |-> Len(t)]
  OBVIOUS
<1>4. W \in [Seq(Metrics) -> Int] /\ \A t \in Seq(Metrics) : W[t] = Len(t)
  BY <1>3
<1>5. rows \in Seq(Metrics) /\ Len(rows) = TotalOf(billing, W)
  BY <1>1, <1>4, FlattenLength
<1>6. /\ older \in Seq(Seq(Metrics)) /\ shown \in Seq(Seq(Metrics))
      /\ billing = older \o shown
      /\ Len(shown) <= RecentImports
      /\ older # <<>> => Len(shown) = RecentImports
  <2>1. RecentImports \in Nat
    BY RecentAssumption
  <2> QED BY <1>1, <2>1, NewestAreLast
<1>7. Len(rows) = Len(FlattenSeq(older)) + TotalOf(shown, W)
  <2>1. TotalOf(older \o shown, W) = TotalOf(older, W) + TotalOf(shown, W)
    BY <1>4, <1>6, TotalJoined
  <2>2. Len(FlattenSeq(older)) = TotalOf(older, W)
    BY <1>4, <1>6, FlattenLength
  <2> QED BY <1>5, <1>6, <2>1, <2>2
<1>8. PartsAddUp(usages, BillingCount(rows))
  <2> SUFFICES ASSUME NEW c \in {"rows", "tokens"}
               PROVE  SumOf(usages, c) = BillingCount(rows)[c]
    BY <1>5, CountsAreTotals DEF PartsAddUp
  <2>1. PICK U : U = CountOf(c)
    OBVIOUS
  <2>2. U \in [Metrics -> Int]
    BY <1>5, <2>1, CountsAreTotals
  <2>3. \A u \in DOMAIN usages : usages[u][c] = TotalOf(RowsOf(rows, "usage", u), U)
    BY <1>2, <1>5, <2>1, RowsOfField, CountsAreTotals
  <2>4. Grouped(usages, rows, "usage", c, U)
    BY <1>2, <2>3 DEF Grouped
  <2>5. SumOf(usages, c) = TotalOf(rows, U)
    BY <1>5, <2>2, <2>4, GroupsTotal
  <2> QED BY <1>5, <2>1, <2>5, CountsAreTotals
<1>9. SumOf(imports, "rows") + Len(FlattenSeq(older)) = BillingCount(rows)["rows"]
  <2>1. PICK part : part = [i \in DOMAIN shown |-> Len(shown[i])]
    OBVIOUS
  <2>2. DOMAIN imports = DOMAIN shown /\ \A i \in DOMAIN shown : part[i] = imports[i]["rows"]
    BY <1>2, <2>1
  <2>3. \A i \in DOMAIN shown : part[i] = W[shown[i]]
    <3>1. \A i \in DOMAIN shown : shown[i] \in Seq(Metrics)
      BY <1>6
    <3> QED BY <1>4, <2>1, <3>1
  <2>4. PICK E, lists : E = Seq(Metrics) /\ lists = shown
    OBVIOUS
  <2>5. lists \in Seq(E) /\ W \in [E -> Int] /\ \A i \in DOMAIN lists : part[i] = W[lists[i]]
    BY <1>4, <1>6, <2>3, <2>4
  <2>6. /\ \E it : SumsUp(it, DOMAIN lists, part)
        /\ \A it : SumsUp(it, DOMAIN lists, part) => it[DOMAIN lists] = TotalOf(lists, W)
    BY ONLY <2>5, PlacesTotal
  <2>7. SumOf(imports, "rows") = TotalOf(lists, W)
    <3>1. DOMAIN imports = DOMAIN lists
      BY <2>2, <2>4
    <3>2. \A i \in DOMAIN imports : part[i] = imports[i]["rows"]
      BY <2>2
    <3>3. PICK total : total = TotalOf(lists, W)
      OBVIOUS
    <3>4. \E it : SumsUp(it, DOMAIN imports, part)
      BY ONLY <2>6, <3>1, Zenon
    <3>5. \A it : SumsUp(it, DOMAIN imports, part) => it[DOMAIN imports] = total
      BY ONLY <2>6, <3>1, <3>3, Zenon
    <3>6. SumOf(imports, "rows") = total
      BY ONLY <3>2, <3>4, <3>5, SumOfParts
    <3> QED BY ONLY <3>3, <3>6
  <2>8. BillingCount(rows)["rows"] = Len(rows)
    BY DEF BillingCount
  <2>9. PICK n \in Nat, k \in Nat : n = Len(rows) /\ k = Len(FlattenSeq(older))
    <3>1. FlattenSeq(older) \in Seq(Metrics)
      BY <1>4, <1>6, FlattenLength
    <3> QED BY <1>5, <3>1
  <2>10. TotalOf(shown, W) = n - k
    <3>1. TotalOf(shown, W) \in Int
      BY <1>4, <1>6, TotalIs
    <3> QED BY <1>7, <2>9, <3>1
  <2> QED BY <2>4, <2>7, <2>8, <2>9, <2>10
<1>10. DOMAIN imports = DOMAIN shown /\ Len(imports) = Len(shown)
  BY <1>2, <1>6
<1>11. SubSeq(billing, 1, Len(billing) - Len(imports)) = older
  BY <1>1, <1>10, Zenon DEF OlderRows
<1> QED BY <1>1, <1>2, <1>8, <1>9, <1>6, <1>10, <1>11 DEF BillingAddsUp

\* The totals of the log are those of its rows and of rows that are gone.
Outlived(totals, rows, gone) ==
  /\ totals \in [Columns -> Int]
  /\ \A c \in Columns : totals[c] = TotalOf(gone, Weight(c)) + TotalOf(rows, Weight(c))

LogInv ==
  /\ DOMAIN log = {"rows", "totals"}
  /\ log.rows \in Seq(LoggedRows)
  /\ up => log.totals # NoTotals
  /\ log.totals # NoTotals =>
       \E gone \in Seq(LoggedRows) : Outlived(log.totals, log.rows, gone)
  /\ billing \in Seq(Seq(Metrics))

\* Every retention that may be in force some time is a number.
RetentionInv ==
  /\ "retention" \in DOMAIN memory /\ memory.retention \in Nat
  /\ "retention" \in DOMAIN stored => stored.retention \in Nat
  /\ "retention" \in DOMAIN updates => updates.retention \in Nat

\* The retention of the environment is a number.
LEMMA RetentionStart == ASSUME RecordsInit PROVE RetentionInv
<1>1. stored = <<>> /\ updates = <<>> /\ memory = Environment
  BY DEF RecordsInit, ConfigInit
<1>2. "retention" \in DOMAIN Environment
  BY ConfigAssumption DEF PersistedConfigKeys
<1>3. Environment.retention \in Nat
  BY RowsAssumption
<1>4. DOMAIN stored = {} /\ DOMAIN updates = {}
  BY <1>1
<1> QED BY <1>1, <1>2, <1>3, <1>4 DEF RetentionInv

\* One setting is changed.
LEMMA RetentionSet ==
  ASSUME RetentionInv, NEW k, NEW v, SetSetting(k, v), k = "retention" => v \in Nat
  PROVE  /\ "retention" \in DOMAIN memory' /\ memory'.retention \in Nat
         /\ "retention" \in DOMAIN stored' => stored'.retention \in Nat
BY DEF RetentionInv, SetSetting, Put

\* So is every one that a patch or a restart brings.
LEMMA RetentionStep ==
  ASSUME RetentionInv, [RecordsNext]_records
  PROVE  RetentionInv'
<1>1. CASE Start
  <2>1. LoadSettings /\ updates' = <<>>
    BY <1>1 DEF Start, StartSettings
  <2>2. memory' = [Overridden EXCEPT !.affinity = Secret]
    BY <2>1 DEF LoadSettings
  <2>3. DOMAIN Environment = PersistedConfigKeys /\ "retention" \in PersistedConfigKeys
    BY ConfigAssumption DEF PersistedConfigKeys
  <2>4. "retention" \in DOMAIN Overridden /\ Overridden.retention \in Nat
    BY <2>3, RowsAssumption DEF Overridden, RetentionInv
  <2>5. "retention" \in DOMAIN memory' /\ memory'.retention \in Nat
    BY <2>2, <2>4
  <2>6. "retention" \in DOMAIN stored' => stored'.retention \in Nat
    BY <2>1 DEF LoadSettings, Put, RetentionInv
  <2>7. DOMAIN updates' = {}
    BY <2>1
  <2> QED BY <2>5, <2>6, <2>7 DEF RetentionInv
<1>2. CASE Crash
  <2>1. updates' = <<>> /\ UNCHANGED <<memory, stored>>
    BY <1>2 DEF Crash
  <2>2. DOMAIN updates' = {}
    BY <2>1
  <2> QED BY <2>1, <2>2 DEF RetentionInv
<1>3. CASE AdminCall
  <2>1. CASE UNCHANGED config
    BY <2>1 DEF config, RetentionInv
  <2>2. ASSUME NEW patch \in Patches, PatchConfig(patch)
        PROVE  RetentionInv'
    BY <2>2, RowsAssumption DEF PatchConfig, RetentionInv
  <2>3. ASSUME NEW keys, StoreProxyKeys(keys), UNCHANGED updates
        PROVE  RetentionInv'
    BY <2>3, RetentionSet DEF StoreProxyKeys, RetentionInv
  <2> QED BY <1>3, <2>1, <2>2, <2>3 DEF AdminCall, ConfigCall, GenerateProxyKey, DeleteProxyKey
<1>4. CASE HandlerStep
  <2>1. CASE UNCHANGED config
    BY <2>1 DEF config, RetentionInv
  <2>2. CASE PatchStep
    <3>1. PICK k \in DOMAIN updates :
            /\ SetSetting(k, updates[k])
            /\ updates' = [j \in DOMAIN updates \ {k} |-> updates[j]]
      BY <2>2 DEF PatchStep
    <3>2. k = "retention" => updates[k] \in Nat
      BY DEF RetentionInv
    <3>3. "retention" \in DOMAIN updates' => updates'.retention \in Nat
      BY <3>1 DEF RetentionInv
    <3> QED BY <3>1, <3>2, <3>3, RetentionSet DEF RetentionInv
  <2> QED BY <1>4, <2>1, <2>2 DEF HandlerStep
<1>5. CASE LogRequest
  BY <1>5 DEF LogRequest, config, RetentionInv
<1>6. CASE UNCHANGED records
  BY <1>6 DEF records, RetentionInv
<1> QED BY <1>1, <1>2, <1>3, <1>4, <1>5, <1>6 DEF RecordsNext

\* What the insertion adds to the totals.
LEMMA CountedRow ==
  ASSUME NEW row \in LoggedRows
  PROVE  \A c \in Columns : Counted(row)[c] = Weight(c)[row]
<1>1. PICK s : s = <<row>>
  OBVIOUS
<1>2. <<>> \in Seq(LoggedRows) /\ s = Append(<<>>, row)
  BY <1>1
<1>3. s \in Seq(LoggedRows) /\ Len(s) = 1
  BY <1>1
<1>4. \A c \in Columns : TotalOf(s, Weight(c)) = Weight(c)[row]
  <2> SUFFICES ASSUME NEW c \in Columns PROVE TotalOf(s, Weight(c)) = Weight(c)[row]
    OBVIOUS
  <2>1. Weight(c) \in [LoggedRows -> Int] /\ Weight(c)[row] \in Int
    BY WeightsAre
  <2>2. TotalOf(Append(<<>>, row), Weight(c)) = TotalOf(<<>>, Weight(c)) + Weight(c)[row]
    BY <1>2, <2>1, TotalMore
  <2> QED BY <1>2, <2>1, <2>2, TotalNone
<1>5. FoldLeft(LAMBDA n, r : n + r.tokens, 0, s) = TotalOf(s, Weight("tokens"))
  <2>1. /\ Weight("tokens") \in [LoggedRows -> Int]
        /\ \A r \in LoggedRows : Weight("tokens")[r] = r.tokens
    BY WeightsAre DEF Columns
  <2> QED BY <1>3, <2>1, TokensTotal
<1>6. FoldLeft(LAMBDA n, r : IF r.estimated THEN n + r.tokens ELSE n, 0, s)
        = TotalOf(s, Weight("estimated"))
  BY <1>3, EstimatedTotal
<1>7. IsError(row) <=> SqlError(row)
  BY DEF IsError, SqlError
<1>8. /\ Counted(row)["requests"] = 1
      /\ Counted(row)["errors"] = IF IsError(row) THEN 1 ELSE 0
      /\ Counted(row)["tokens"] = TotalOf(s, Weight("tokens"))
      /\ Counted(row)["estimated"] = TotalOf(s, Weight("estimated"))
  BY <1>1, <1>3, <1>5, <1>6 DEF Counted, Sums
<1>9. /\ Weight("requests")[row] = 1
      /\ Weight("errors")[row] = IF SqlError(row) THEN 1 ELSE 0
  BY WeightsAre
<1> QED BY <1>4, <1>7, <1>8, <1>9 DEF Columns

\* insert_request_log adds the row to the totals, and a row it evicts stays in them.
LEMMA LogInsert ==
  ASSUME LogInv, log.totals # NoTotals, NEW row \in LoggedRows, NEW retention \in Nat,
         log' = InsertRequestLog(log, row, retention)
  PROVE  /\ DOMAIN log' = {"rows", "totals"}
         /\ log'.rows \in Seq(LoggedRows)
         /\ log'.totals # NoTotals
         /\ \E gone \in Seq(LoggedRows) : Outlived(log'.totals, log'.rows, gone)
<1>1. PICK gone \in Seq(LoggedRows) : Outlived(log.totals, log.rows, gone)
  BY DEF LogInv
<1>2. PICK rows, more : rows = log.rows /\ more = Append(rows, row)
  OBVIOUS
<1>3. rows \in Seq(LoggedRows) /\ more \in Seq(LoggedRows)
  BY <1>2, Appended DEF LogInv
<1>4. PICK evicted \in Seq(LoggedRows) :
        /\ NewestRows(more, retention) \in Seq(LoggedRows)
        /\ more = evicted \o NewestRows(more, retention)
  BY <1>3, NewestAreLast
<1>5. PICK new : new = NewestRows(more, retention)
  OBVIOUS
<1>6. PICK totals : totals = [c \in Columns |-> log.totals[c] + Counted(row)[c]]
  OBVIOUS
<1>7. /\ DOMAIN log' = {"rows", "totals"}
      /\ log'.rows = new
      /\ log'.totals = totals
  BY <1>2, <1>5, <1>6 DEF InsertRequestLog, LogInv
<1>8. \A c \in Columns : totals[c] = TotalOf(gone \o evicted, Weight(c)) + TotalOf(new, Weight(c))
                         /\ totals[c] \in Int
  <2> SUFFICES ASSUME NEW c \in Columns
               PROVE  /\ totals[c] = TotalOf(gone \o evicted, Weight(c)) + TotalOf(new, Weight(c))
                      /\ totals[c] \in Int
    OBVIOUS
  <2>1. PICK W : W = Weight(c)
    OBVIOUS
  <2>2. W \in [LoggedRows -> Int] /\ W[row] \in Int
    BY <2>1, WeightsAre
  <2>3. totals[c] = log.totals[c] + W[row]
    BY <1>6, <2>1, CountedRow
  <2>4. log.totals[c] = TotalOf(gone, W) + TotalOf(rows, W)
    BY <1>1, <1>2, <2>1 DEF Outlived
  <2>5. TotalOf(more, W) = TotalOf(rows, W) + W[row]
    BY <1>2, <1>3, <2>2, TotalMore
  <2>6. more = evicted \o new /\ new \in Seq(LoggedRows)
    BY <1>4, <1>5
  <2>7. TotalOf(more, W) = TotalOf(evicted, W) + TotalOf(new, W)
    BY <2>2, <2>6, TotalJoined
  <2>8. TotalOf(gone \o evicted, W) = TotalOf(gone, W) + TotalOf(evicted, W)
    BY <2>2, TotalJoined
  <2>9. /\ TotalOf(gone, W) \in Int /\ TotalOf(rows, W) \in Int
        /\ TotalOf(evicted, W) \in Int /\ TotalOf(new, W) \in Int
    BY <1>3, <2>2, <2>6, TotalIs
  <2>10. totals[c] = TotalOf(gone \o evicted, W) + TotalOf(new, W) /\ totals[c] \in Int
    <3>1. PICK g, r, e, n, w : /\ g = TotalOf(gone, W) /\ r = TotalOf(rows, W)
                               /\ e = TotalOf(evicted, W) /\ n = TotalOf(new, W) /\ w = W[row]
      OBVIOUS
    <3>2. g \in Int /\ r \in Int /\ e \in Int /\ n \in Int /\ w \in Int
      BY <2>2, <2>9, <3>1
    <3>3. r + w = e + n
      BY <2>5, <2>7, <3>1
    <3>4. totals[c] = (g + r) + w
      BY <2>3, <2>4, <3>1
    <3>5. TotalOf(gone \o evicted, W) = g + e
      BY <2>8, <3>1
    <3>6. totals[c] = (g + e) + n /\ totals[c] \in Int
      BY ONLY <3>2, <3>3, <3>4
    <3> QED BY <3>1, <3>5, <3>6
  <2> QED BY <2>1, <2>10
<1>9. totals \in [Columns -> Int]
  BY <1>6, <1>8
<1>10. Outlived(totals, new, gone \o evicted) /\ gone \o evicted \in Seq(LoggedRows)
  BY <1>8, <1>9 DEF Outlived
<1>11. totals # NoTotals
  <2>1. DOMAIN totals = Columns /\ "errors" \in Columns
    BY <1>9 DEF Columns
  <2>2. "errors" \notin DOMAIN NoTotals
    BY DEF NoTotals
  <2> QED BY <2>1, <2>2
<1> QED BY <1>4, <1>5, <1>7, <1>10, <1>11

\* init_db: the totals are those of the rows there are.
LEMMA LogSeeded ==
  ASSUME LogInv, log' = SeedRequestLogTotals(log)
  PROVE  /\ DOMAIN log' = {"rows", "totals"}
         /\ log'.rows \in Seq(LoggedRows)
         /\ log'.totals # NoTotals
         /\ \E gone \in Seq(LoggedRows) : Outlived(log'.totals, log'.rows, gone)
<1>1. CASE log.totals # NoTotals
  BY <1>1 DEF SeedRequestLogTotals, LogInv
<1>2. CASE log.totals = NoTotals
  <2>1. PICK rows, totals : rows = log.rows /\ totals = SqlSums(rows)
    OBVIOUS
  <2>2. rows \in Seq(LoggedRows)
    BY <2>1 DEF LogInv
  <2>3. DOMAIN log' = {"rows", "totals"} /\ log'.rows = rows /\ log'.totals = totals
    BY <1>2, <2>1 DEF SeedRequestLogTotals, LogInv
  <2>4. totals \in [Columns -> Int]
    <3>1. DOMAIN totals = Columns /\ \A c \in Columns : totals[c] \in Int
      BY <2>1, <2>2, SumsAreTotals
    <3>2. totals = [c \in DOMAIN totals |-> totals[c]]
      BY <2>1 DEF SqlSums, Sums
    <3> QED BY <3>1, <3>2
  <2>5. Outlived(totals, rows, <<>>)
    BY <2>1, <2>2, <2>4, SumsAreTotals, TotalNone DEF Outlived
  <2>6. totals # NoTotals /\ <<>> \in Seq(LoggedRows)
    BY <2>4 DEF NoTotals, Columns
  <2> QED BY <2>2, <2>3, <2>5, <2>6
<1> QED BY <1>1, <1>2

\* A log that an older version left has no totals.
LEMMA LogStart == ASSUME RecordsInit PROVE LogInv
<1>1. PICK old \in OldRows : log = [rows |-> old, totals |-> NoTotals]
  BY DEF RecordsInit
<1>2. old \in Seq(LoggedRows)
  BY RowsAssumption
<1>3. ~up /\ billing = <<>>
  BY DEF RecordsInit
<1>4. <<>> \in Seq(Seq(Metrics))
  OBVIOUS
<1> QED BY <1>1, <1>2, <1>3, <1>4 DEF LogInv

\* The totals stay those of the rows that were ever logged.
LEMMA LogStep ==
  ASSUME LogInv, RetentionInv, [RecordsNext]_records
  PROVE  LogInv'
<1>1. CASE Start
  <2>1. log' = SeedRequestLogTotals(log) /\ UNCHANGED billing
    BY <1>1 DEF Start
  <2> QED BY <2>1, LogSeeded DEF LogInv
<1>2. CASE Crash
  <2>1. ~up' /\ UNCHANGED <<log, billing>>
    BY <1>2 DEF Crash
  <2> QED BY <2>1 DEF LogInv
<1>3. CASE AdminCall
  <2>1. UNCHANGED <<up, log>>
    BY <1>3 DEF AdminCall
  <2>2. billing' \in Seq(Seq(Metrics))
    <3>1. CASE UNCHANGED billing
      BY <3>1 DEF LogInv
    <3>2. ASSUME NEW csv \in Csvs, billing' = Append(billing, csv.rows)
          PROVE  billing' \in Seq(Seq(Metrics))
      <4>1. csv.rows \in Seq(Metrics) /\ billing \in Seq(Seq(Metrics))
        BY RowsAssumption DEF LogInv
      <4> QED BY <3>2, <4>1
    <3> QED BY <1>3, <3>1, <3>2 DEF AdminCall
  <2> QED BY <2>1, <2>2 DEF LogInv
<1>4. CASE HandlerStep
  <2>1. UNCHANGED <<up, log, billing>>
    BY <1>4 DEF HandlerStep
  <2> QED BY <2>1 DEF LogInv
<1>5. CASE LogRequest
  <2>1. up /\ UNCHANGED <<up, billing>>
    BY <1>5 DEF LogRequest, Ready
  <2>2. log.totals # NoTotals
    BY <2>1 DEF LogInv
  <2>3. PICK row \in Rows : log' = IF memory.retention = NoValue THEN log
                                  ELSE InsertRequestLog(log, row, memory.retention)
    BY <1>5 DEF LogRequest
  <2>4. CASE UNCHANGED log
    BY <2>1, <2>4 DEF LogInv
  <2>5. CASE log' = InsertRequestLog(log, row, memory.retention)
    <3>1. row \in LoggedRows /\ memory.retention \in Nat
      BY DEF LoggedRows, RetentionInv
    <3> QED BY <2>1, <2>2, <2>5, <3>1, LogInsert DEF LogInv
  <2> QED BY <2>3, <2>4, <2>5
<1>6. CASE UNCHANGED records
  BY <1>6 DEF records, LogInv
<1> QED BY <1>1, <1>2, <1>3, <1>4, <1>5, <1>6 DEF RecordsNext

\* What is retained is a part of the totals.
LEMMA TotalsRetain == ASSUME LogInv PROVE RetainedInTotals
<1> SUFFICES ASSUME up PROVE LET page == Overview(log)
                             IN  /\ \A c \in Columns : page.retained[c] <= page.all[c]
                                 /\ page.retained.requests = page.all.requests =>
                                      page.retained = page.all
  BY DEF RetainedInTotals
<1>1. PICK rows, all, retained : /\ rows = log.rows /\ all = log.totals
                                 /\ retained = SqlSums(log.rows)
  OBVIOUS
<1>2. all # NoTotals /\ rows \in Seq(LoggedRows)
  BY <1>1 DEF LogInv
<1>3. PICK gone \in Seq(LoggedRows) : Outlived(all, rows, gone)
  BY <1>1, <1>2 DEF LogInv
<1>4. Overview(log).all = all /\ Overview(log).retained = retained
  BY <1>1, <1>2 DEF Overview, RequestLogTotals
<1>5. /\ DOMAIN retained = Columns
      /\ \A c \in Columns : retained[c] = TotalOf(rows, Weight(c)) /\ retained[c] \in Int
  BY <1>1, <1>2, SumsAreTotals
<1>6. \A c \in Columns : all[c] = TotalOf(gone, Weight(c)) + retained[c]
  BY <1>3, <1>5 DEF Outlived
<1>7. \A c \in Columns : TotalOf(gone, Weight(c)) >= 0 /\ TotalOf(gone, Weight(c)) \in Int
  <2> SUFFICES ASSUME NEW c \in Columns
               PROVE  TotalOf(gone, Weight(c)) >= 0 /\ TotalOf(gone, Weight(c)) \in Int
    OBVIOUS
  <2>1. PICK W : W = Weight(c)
    OBVIOUS
  <2>2. W \in [LoggedRows -> Int] /\ \A row \in LoggedRows : W[row] >= 0
    BY <2>1, WeightsAre
  <2>3. TotalOf(gone, W) >= 0 /\ TotalOf(gone, W) \in Int
    BY <2>2, TotalPositive, TotalIs
  <2> QED BY <2>1, <2>3
<1>8. \A c \in Columns : retained[c] <= all[c]
  BY <1>5, <1>6, <1>7
<1>9. ASSUME retained.requests = all.requests PROVE retained = all
  <2>1. TotalOf(gone, Weight("requests")) = 0
    BY <1>5, <1>6, <1>7, <1>9 DEF Columns
  <2>2. Len(gone) = 0
    <3>1. Weight("requests") \in [LoggedRows -> Int]
          /\ \A row \in LoggedRows : Weight("requests")[row] = 1
      BY WeightsAre DEF Columns
    <3>2. TotalOf(gone, Weight("requests")) = Len(gone)
      BY <3>1, TotalOnes
    <3> QED BY <2>1, <3>2
  <2>3. gone = <<>>
    BY ONLY gone \in Seq(LoggedRows), <2>2
  <2>4. \A c \in Columns : all[c] = retained[c]
    BY <1>5, <1>6, <2>3, TotalNone
  <2>5. all = [c \in Columns |-> all[c]]
    BY <1>3 DEF Outlived
  <2>6. retained = [c \in Columns |-> retained[c]]
    <3>1. retained = [c \in DOMAIN retained |-> retained[c]]
      BY <1>1 DEF SqlSums, Sums
    <3> QED BY <1>5, <3>1
  <2> QED BY <2>4, <2>5, <2>6
<1> QED BY <1>4, <1>8, <1>9

\* Whatever page an administrator opens, at any moment and whatever was evicted,
\* its numbers agree with each other and with those of the other pages
\* (control/repository.py: the totals, the usage of a key, the estimate of costs,
\* the billing summary and the lists of requests).
THEOREM PagesStayInAgreement == RecordsSpec => []PagesAgree
<1>1. RecordsInit => RetentionInv /\ LogInv
  BY RetentionStart, LogStart
<1>2. RetentionInv /\ LogInv /\ [RecordsNext]_records => RetentionInv' /\ LogInv'
  BY RetentionStep, LogStep
<1>3. LogInv => PagesAgree
  BY TotalsRetain, UsagesAddUp, CostsAddUp, BillsAddUp, PagesListAlike DEF PagesAgree, LogInv
<1> QED BY <1>1, <1>2, <1>3, PTL DEF RecordsSpec

=============================================================================
