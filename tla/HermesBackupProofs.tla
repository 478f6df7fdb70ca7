------------------------- MODULE HermesBackupProofs -------------------------
(***************************************************************************)
(* Theorems about HermesBackup for any number of bundles, Atlas nodes,       *)
(* collections, documents, backups and losses of the database: as long as    *)
(* no call of the node's own fails, whichever Atlas nodes do not answer or   *)
(* answer wrongly, bundles, entities and collections come back, and what     *)
(* others write meanwhile is kept, through failures too, until the           *)
(* collections are restored again.                                          *)
(***************************************************************************)
EXTENDS HermesBackup, SequenceTheorems, WellFoundedInduction, TLAPS

\* The bundles that are back, that no Atlas node has, and that the restorer is done with.
Recovered ==
    {b \in Bundles :
        \/ shelterers[b] = {}
        \/ b \in files /\ content[b] \subseteq entities
        \/ b \in unreached \cup wrong}

\* The entities of the backups that have been begun.
EntitiesUpTo(m) == {AssetOf(n) : n \in 1..m} \cup {EventOf(n) : n \in 1..m}

Loop == {"dropOld", "rename", "insertMany"}
HasEntries == {"parse", "isStored", "storeBody", "entries"}

\* TypeOK, and where the local variables of the start and of a backup are in use, in
\* parts of which an action changes one or two.
ChainPart ==
    /\ anchored \in Seq(Bundles)
    /\ shelterers \in [Bundles -> SUBSET Donors]
    /\ content \in [Bundles -> SUBSET EntitiesUpTo(made)]
    /\ troubles \in 0..MaxTroubles

StorePart ==
    /\ entities \subseteq EntitiesUpTo(made)
    /\ proven \subseteq documents /\ documents \subseteq Bundles
    /\ wrong \subseteq files /\ files \subseteq documents
    /\ unreached \subseteq documents

ScanPart ==
    /\ savedBlock \in 0..Len(anchored) /\ lastSavedBlock \in 0..Len(anchored)
    /\ copy \subseteq ToSet(anchored)
    /\ known \subseteq ToSet(anchored)
    /\ stored \subseteq Bundles
    /\ added \in Seq(known)
    /\ pc \notin {"saveBlock", "insert"} => added = <<>>

VisitPart ==
    /\ missing \subseteq known
    /\ pc \notin Visiting => missing = {}
    /\ bundle \in known \cup {NoBundle}
    /\ pc \in Visiting \ {"next"} <=> bundle # NoBundle
    /\ donors \subseteq Donors
    /\ bundle # NoBundle => donors \subseteq shelterers[bundle] /\ shelterers[bundle] # {}
    /\ awaited \subseteq Donors
    /\ IF pc \in Visiting \ {"next", "donor"} THEN donor \in donors ELSE donor = NoDonor
    /\ pc \in Visiting \ {"next", "donor", "metadata"} => bundle \in documents
    /\ entries \subseteq EntitiesUpTo(made)
    /\ pc \notin HasEntries => entries = {}

CollectionPart ==
    /\ key \in Keys \cup {NoKey}
    /\ cols \in [Names -> SUBSET Docs]
    /\ old \in [Names -> SUBSET Docs]
    /\ written \in 0..MaxDocs
    /\ lostAt \in 0..written
    /\ losses \in 0..MaxLosses
    /\ restores \in Nat

BackupPart ==
    /\ pc \in Scanning \cup Visiting \cup Restoring \cup Started
    /\ data \in [1..MaxBackups -> [key : Keys \cup {NoKey}, docs : [Names -> SUBSET Docs]]]
    /\ made \in 0..MaxBackups
    /\ pc \in {"readCollection", "storeAsset"} => made < MaxBackups
    /\ pc = "storeEvent" => made > 0
    /\ at \in 1..Len(Collections)
    /\ pc \notin Loop \cup {"readCollection"} => at = 1
    /\ backup \in 0..made
    /\ pc \in Loop => backup > 0
    /\ read \in [Names -> SUBSET Docs]

TypeInv == ChainPart /\ StorePart /\ ScanPart /\ VisitPart /\ CollectionPart /\ BackupPart

\* Bundles are made of something.
Composed == \A b \in ToSet(anchored) \cup documents : content[b] # {}

\* The bundle that is being restored: its body is stored before its entities are, and
\* donors that have not failed to answer are still on the list.
HalfPart ==
    /\ \A b \in files \ wrong :
          \/ content[b] \subseteq entities
          \/ b = bundle /\ pc = "entries" /\ content[b] \subseteq entities \cup entries
    /\ pc = "entries" => bundle \in files
    /\ bundle # NoBundle => awaited \subseteq donors \/ bundle \in wrong
    /\ bundle # NoBundle /\ awaited = {} => bundle \in unreached

\* Where a bundle of the chain is that is not back yet: behind the saved block, in the
\* copy of the list, in the list, or among the missing ones.
FoundPart ==
    /\ documents \subseteq Recovered \cup {bundle}
    /\ \A i \in 1..savedBlock : anchored[i] \in copy \cup ToSet(added) \cup Recovered \cup {bundle}
    /\ pc \in {"list", "scan"} =>
          lastSavedBlock = savedBlock /\ \A i \in 1..lastSavedBlock : anchored[i] \in known \cup Recovered
    /\ pc = "saveBlock" =>
          \A i \in 1..lastSavedBlock : anchored[i] \in copy \cup ToSet(added) \cup Recovered
    /\ pc \in {"saveBlock", "insert", "compare"} => ToSet(anchored) \subseteq known \cup Recovered
    /\ pc \in {"scan", "saveBlock", "insert", "compare"} => stored \subseteq Recovered
    /\ pc \in Visiting => ToSet(anchored) \subseteq missing \cup Recovered \cup {bundle}
    /\ pc \in Restoring \cup Started => ToSet(anchored) \subseteq Recovered

BundleInv == HalfPart /\ FoundPart

\* Where events are: an event that exists is one of a backup of all required collections.
Recorded == entities \cup entries \cup UNION {content[b] : b \in Bundles}

BackupInv ==
    /\ \A n \in 1..made : EventOf(n) \in Recorded => \A c \in Required : data[n].docs[c] # {}
    /\ pc \notin Saving => read = NoDocs
    /\ pc \in Saving => \A c \in Names : read[c] \subseteq cols[c]
    /\ pc = "readCollection" =>
          \A i \in 1..(at - 1) : Collections[i] \in Required => read[Collections[i]] # {}
    /\ pc \in {"storeAsset", "storeEvent"} => \A c \in Required : read[c] # {}

\* The promise of CollectionsAreBack.
CollectionsBack ==
    Latest # 0 =>
        \/ data[Latest].key # key
        \/ \A c \in Names : data[Latest].docs[c] \subseteq cols[c]
        \/ \A c \in Required : \E d \in cols[c] \cup old[c] : d > lostAt

\* Nothing has been restored since the last loss.
FreshCols == old = NoDocs /\ \A c \in Names : \A d \in cols[c] : d > lostAt

\* While the collections are restored, the first ones are back and the others fresh.
LoopInv ==
    /\ backup = Latest /\ backup # 0 /\ data[backup].key = key
    /\ \A i \in 1..Len(Collections) : i < at =>
          data[backup].docs[Collections[i]] \subseteq cols[Collections[i]]
    /\ \A i \in 1..Len(Collections) : i >= at =>
          \A d \in cols[Collections[i]] : d > lostAt
    /\ \A i \in 1..Len(Collections) : i >= at =>
          old[Collections[i]] = {} \/ (i = at /\ pc = "insertMany")

\* No visit of this start stores anything: a bundle somebody has is here, or is passed over.
Settled ==
    /\ pc \notin {"storeBody", "entries"}
    /\ bundle \in files \cup {NoBundle}
    /\ \A b \in ToSet(anchored) :
          \/ shelterers[b] = {} \/ b \in files
          \/ b \in documents \ missing /\ (pc \in Scanning \ {"load", "list"} => b \in stored)

\* Before that, the collections are fresh, or the node had started and only starts again.
CollectionInv ==
    /\ pc \notin Loop => FreshCols \/ (Settled /\ CollectionsBack)
    /\ pc \in Started => CollectionsBack
    /\ pc \in Loop => LoopInv
    /\ pc \notin Loop => old = NoDocs \/ \A c \in Required : cols[c] # {}
    /\ \A d \in (lostAt + 1)..written : \E c \in Names : d \in cols[c] \cup old[c]

\* Whatever fails, the first restore after a loss finds no old collection.
OnceInv ==
    /\ restores = 0 => old = NoDocs /\ pc \notin Loop
    /\ restores <= 1 /\ pc \in Loop =>
          \A i \in 1..Len(Collections) : i >= at =>
              old[Collections[i]] = {} \/ (i = at /\ pc = "insertMany")
    /\ restores <= 1 => \A d \in (lostAt + 1)..written : \E c \in Names : d \in cols[c] \cup old[c]

-----------------------------------------------------------------------------
(* Sequences *)

LEMMA AppendElements ==
  ASSUME NEW S, NEW s \in Seq(S), NEW x \in S
  PROVE  /\ Append(s, x) \in Seq(S)
         /\ Len(Append(s, x)) = Len(s) + 1
         /\ ToSet(Append(s, x)) = ToSet(s) \cup {x}
         /\ \A i \in 1..Len(s) : Append(s, x)[i] = s[i]
<1>1. /\ Append(s, x) \in Seq(S) /\ Len(Append(s, x)) = Len(s) + 1
      /\ \A i \in 1..Len(s) : Append(s, x)[i] = s[i]
      /\ Append(s, x)[Len(s) + 1] = x
  OBVIOUS
<1>2. DOMAIN Append(s, x) = 1..(Len(s) + 1) /\ DOMAIN s = 1..Len(s) /\ Len(s) \in Nat
  BY <1>1
<1>3. DOMAIN Append(s, x) = DOMAIN s \cup {Len(s) + 1}
  BY <1>2
<1>4. QED
  BY <1>1, <1>2, <1>3 DEF ToSet

LEMMA TailElements ==
  ASSUME NEW S, NEW s \in Seq(S), s # <<>>
  PROVE  Tail(s) \in Seq(S) /\ Head(s) \in S /\ ToSet(s) = ToSet(Tail(s)) \cup {Head(s)}
<1>1. /\ Tail(s) \in Seq(S) /\ Head(s) \in S /\ Head(s) = s[1]
      /\ Len(s) \in Nat \ {0} /\ Len(Tail(s)) = Len(s) - 1
      /\ \A i \in 1..Len(Tail(s)) : Tail(s)[i] = s[i + 1]
  BY HeadTailProperties, LenProperties
<1>2. DOMAIN Tail(s) = 1..(Len(s) - 1) /\ DOMAIN s = 1..Len(s)
  BY <1>1
<1>3. \A i \in 1..Len(s) : i = 1 \/ (i - 1 \in 1..(Len(s) - 1) /\ i = (i - 1) + 1)
  BY <1>1
<1>4. \A i \in 1..(Len(s) - 1) : i + 1 \in 1..Len(s)
  BY <1>1
<1>5. \A i \in 1..(Len(s) - 1) : Tail(s)[i] \in ToSet(s)
  BY <1>1, <1>2, <1>4 DEF ToSet
<1>6. \A i \in 1..Len(s) : s[i] \in ToSet(Tail(s)) \cup {Head(s)}
  <2> TAKE i \in 1..Len(s)
  <2>1. CASE i = 1
    BY <2>1, <1>1
  <2>2. CASE i # 1
    <3>1. i - 1 \in 1..(Len(s) - 1) /\ Tail(s)[i - 1] = s[i]
      BY <2>2, <1>1, <1>3
    <3>2. QED
      BY <3>1, <1>2 DEF ToSet
  <2>3. QED
    BY <2>1, <2>2
<1>7. Head(s) \in ToSet(s)
  BY <1>1, <1>2 DEF ToSet
<1>8. QED
  BY <1>1, <1>2, <1>5, <1>6, <1>7 DEF ToSet

LEMMA RestElements ==
  ASSUME NEW S, NEW s \in Seq(S), NEW m \in 0..Len(s)
  PROVE  /\ SubSeq(s, m + 1, Len(s)) \in Seq(S)
         /\ ToSet(SubSeq(s, m + 1, Len(s))) \subseteq ToSet(s)
         /\ \A i \in 1..Len(s) : i > m => s[i] \in ToSet(SubSeq(s, m + 1, Len(s)))
<1> DEFINE rest == SubSeq(s, m + 1, Len(s))
<1>1. /\ rest \in Seq(S) /\ Len(s) \in Nat /\ Len(rest) = Len(s) - m
      /\ \A i \in 1..Len(rest) : rest[i] = s[m + i]
  <2>1. Len(s) \in Nat /\ m \in Nat
    BY LenProperties
  <2>2. CASE m = Len(s)
    BY <2>1, <2>2, SubSeqEmpty, SubSeqProperties
  <2>3. CASE m # Len(s)
    <3>1. m + 1 \in 1..(Len(s) + 1) /\ Len(s) \in m..Len(s)
      BY <2>1
    <3>2. \A i \in (m + 1)..Len(s) : s[i] \in S
      BY <2>1, ElementOfSeq
    <3>3. QED
      BY <2>1, <2>3, <3>1, <3>2, SubSeqProperties
  <2>4. QED
    BY <2>2, <2>3
<1>2. DOMAIN rest = 1..(Len(s) - m) /\ DOMAIN s = 1..Len(s)
  BY <1>1
<1> HIDE DEF rest
<1>3. \A i \in 1..(Len(s) - m) : m + i \in 1..Len(s)
  BY <1>1
<1>4. ToSet(rest) \subseteq ToSet(s)
  BY <1>1, <1>2, <1>3 DEF ToSet
<1>5. ASSUME NEW i \in 1..Len(s), i > m PROVE s[i] \in ToSet(rest)
  <2>1. i - m \in 1..(Len(s) - m) /\ m + (i - m) = i
    BY <1>1, <1>5
  <2>2. rest[i - m] = s[i]
    BY <1>1, <2>1
  <2>3. QED
    BY <1>2, <2>1, <2>2 DEF ToSet
<1>6. QED
  BY <1>1, <1>4, <1>5 DEF rest

LEMMA SequenceElements ==
  ASSUME NEW S, NEW s \in Seq(S)
  PROVE  Len(s) \in Nat /\ ToSet(s) \subseteq S /\ \A i \in 1..Len(s) : s[i] \in ToSet(s)
  BY DEF ToSet

LEMMA ElementsAre ==
  ASSUME NEW S, NEW s \in Seq(S)
  PROVE  ToSet(s) = {s[i] : i \in 1..Len(s)}
  BY DEF ToSet

LEMMA NoElements == ToSet(<<>>) = {}
  BY DEF ToSet

-----------------------------------------------------------------------------
(* The latest backup *)

\* A set of numbers up to a bound has a greatest one.
LEMMA GreatestExists ==
  ASSUME NEW m \in Nat, NEW S \in SUBSET (1..m), S # {}
  PROVE  \E x \in S : \A y \in S : x >= y
<1> DEFINE T == {m - x : x \in S}
<1>1. T \subseteq Nat /\ T # {}
  <2>1. \A x \in S : m - x \in Nat
    OBVIOUS
  <2>2. PICK x \in S : TRUE
    OBVIOUS
  <2>3. m - x \in T
    OBVIOUS
  <2>4. QED
    BY <2>1, <2>3
<1>2. PICK t \in T : \A u \in T : ~(<<u, t>> \in OpToRel(<, Nat))
  BY <1>1, NatLessThanWellFounded, WFMin
<1>3. \A u \in T : ~(u < t)
  BY <1>1, <1>2 DEF OpToRel
<1>4. PICK x \in S : t = m - x
  OBVIOUS
<1>5. \A y \in S : ~(m - y < m - x)
  BY <1>3, <1>4
<1>6. QED
  BY <1>5

LEMMA MaxIs ==
  ASSUME NEW m \in Nat, NEW S \in SUBSET (1..m), S # {}
  PROVE  Max(S) \in S /\ \A y \in S : Max(S) >= y
BY GreatestExists DEF Max

LEMMA LatestIs ==
  ASSUME made \in Nat
  PROVE  /\ Latest \in 0..made
         /\ Latest # 0 => EventOf(Latest) \in entities
         /\ \A n \in 1..made : EventOf(n) \in entities => Latest # 0 /\ n <= Latest
<1> DEFINE numbers == {n \in 1..made : EventOf(n) \in entities}
<1>1. CASE numbers = {}
  BY <1>1 DEF Latest
<1>2. CASE numbers # {}
  <2>1. Max(numbers) \in numbers /\ \A y \in numbers : Max(numbers) >= y
    BY <1>2, MaxIs
  <2>2. Latest = Max(numbers)
    BY <1>2 DEF Latest
  <2>3. QED
    BY <2>1, <2>2
<1>3. QED
  BY <1>1, <1>2


LEMMA SeqSuperset ==
  ASSUME NEW S, NEW T, S \subseteq T, NEW s \in Seq(S)
  PROVE  s \in Seq(T)
  BY SeqMonotonic

LEMMA ElementsSeq ==
  ASSUME NEW S, NEW s \in Seq(S), NEW T
  PROVE  s \in Seq(T \cup ToSet(s))
<1>1. Len(s) \in Nat /\ s = [i \in 1..Len(s) |-> s[i]] /\ \A i \in 1..Len(s) : s[i] \in T \cup ToSet(s)
  BY LenProperties, SequenceElements
<1>2. QED
  BY <1>1, IsASeq

-----------------------------------------------------------------------------
(* Types *)

LEMMA TypeParts == TypeInv => TypeOK
<1> SUFFICES ASSUME TypeInv PROVE TypeOK
  OBVIOUS
<1> USE RestorerAssumption, BackupAssumption DEF TypeInv
<1>1. made \in 0..MaxBackups /\ MaxBackups \in Nat
  BY DEF BackupPart
<1>2. EntitiesUpTo(made) \subseteq Entities
  BY <1>1 DEF EntitiesUpTo
<1>3. ToSet(added) \subseteq known
  BY SequenceElements DEF ScanPart
<1>4. RestorerTypeOK
  BY <1>2, <1>3 DEF ChainPart, StorePart, ScanPart, VisitPart, RestorerTypeOK
<1>5. entities \subseteq {AssetOf(n) : n \in 1..made} \cup {EventOf(n) : n \in 1..made}
  BY DEF StorePart, EntitiesUpTo
<1>6. QED
  BY <1>4, <1>5 DEF CollectionPart, BackupPart, TypeOK, Loop

LEMMA TypeInit == Init => TypeInv
<1> SUFFICES ASSUME Init PROVE TypeInv
  OBVIOUS
<1> USE RestorerAssumption, BackupAssumption
<1>1. Len(Collections) \in Nat \ {0} /\ <<>> \in Seq(Bundles) /\ <<>> \in Seq({}) /\ Len(<<>>) = 0
  BY SequenceElements, LenProperties, EmptySeq
<1>2. ChainPart /\ StorePart
  BY <1>1 DEF Init, RestorerInit, ChainPart, StorePart
<1>3. ScanPart /\ VisitPart
  BY <1>1 DEF Init, RestorerInit, ScanPart, VisitPart, Scanning, Visiting
<1>4. CollectionPart /\ BackupPart
  BY <1>1 DEF Init, RestorerInit, CollectionPart, BackupPart, NoDocs, Scanning, Loop, Saving
<1>5. QED
  BY <1>2, <1>3, <1>4 DEF TypeInv

\* A step that leaves the variables of a part alone keeps it.
LEMMA PartsKept ==
  /\ ChainPart /\ UNCHANGED <<chainVars, made, troubles>> => ChainPart'
  /\ StorePart /\ UNCHANGED <<storeVars, made>> => StorePart'
  /\ CollectionPart /\ UNCHANGED <<collectionVars, ghostVars>> => CollectionPart'
BY DEF ChainPart, chainVars, StorePart, storeVars, CollectionPart, collectionVars, ghostVars

LEMMA BackupKept ==
  ASSUME BackupPart, UNCHANGED <<backupVars, workVars>>,
         pc \notin Loop \cup {"readCollection"},
         pc' \in Scanning \cup Visiting
  PROVE  BackupPart'
BY DEF BackupPart, backupVars, workVars, Scanning, Visiting, Loop

LEMMA TypeRestorer ==
  ASSUME TypeInv, RestoreBundles, UNCHANGED <<collectionVars, backupVars, workVars, ghostVars>>
  PROVE  TypeInv'
<1> USE RestorerAssumption, BackupAssumption DEF TypeInv, Goto
<1> USE PartsKept
<1> USE DEF chainVars, storeVars, copyVars, visitVars, backupVars
<1>0. Len(anchored) \in Nat /\ known \subseteq ToSet(anchored) /\ ToSet(anchored) \subseteq Bundles
  BY SequenceElements DEF ChainPart, ScanPart
<1>1. pc \in Scanning \cup Visiting /\ pc' \in Scanning \cup Visiting
  BY DEF RestoreBundles, Load, GetHermesBundles, Scan, SaveBlock, InsertOne, SaveFails, Compare,
         NextBundle, ChooseDonor, CreateBundleMetadata, DownloadBundle, Delete, IsBundleStored,
         StoreBundle, ParseEntry, DonorDoesNotAnswer, EntryIsRefused, AttemptFails, EndOfBundle, TryNextDonor,
         Scanning, Visiting
<1>2. BackupPart' /\ CollectionPart'
  BY <1>1, BackupKept DEF Scanning, Visiting, Loop
<1>3. troubles' \in 0..MaxTroubles
  BY DEF RestoreBundles, Load, GetHermesBundles, Scan, SaveBlock, InsertOne, SaveFails, Compare,
         NextBundle, ChooseDonor, CreateBundleMetadata, DownloadBundle, Delete, IsBundleStored,
         StoreBundle, ParseEntry, DonorDoesNotAnswer, EntryIsRefused, AttemptFails, EndOfBundle, TryNextDonor, Trouble,
         ChainPart
<1>4. UNCHANGED chainVars
  BY DEF RestoreBundles, Load, GetHermesBundles, Scan, SaveBlock, InsertOne, SaveFails, Compare,
         NextBundle, ChooseDonor, CreateBundleMetadata, DownloadBundle, Delete, IsBundleStored,
         StoreBundle, ParseEntry, DonorDoesNotAnswer, EntryIsRefused, AttemptFails, EndOfBundle, TryNextDonor
<1>5. ChainPart'
  BY <1>3, <1>4 DEF ChainPart
<1>6. ASSUME StorePart', ScanPart', VisitPart' PROVE TypeInv'
  BY <1>2, <1>5, <1>6
<1>7. CASE Load
  <2>1. added = <<>> /\ bundle = NoBundle
    BY <1>7 DEF Load, ScanPart, VisitPart, Scanning, Visiting
  <2>2. ScanPart'
    BY <1>0, <1>7, <2>1, EmptySeq DEF Load, ScanPart
  <2>3. VisitPart'
    <3>1. missing = {}
      BY <1>7 DEF Load, VisitPart, Visiting
    <3>2. QED
      BY <1>7, <2>1, <3>1 DEF Load, VisitPart, Scanning, Visiting, HasEntries
  <2>4. QED
    BY <1>6, <1>7, <2>2, <2>3 DEF Load
<1>8. CASE GetHermesBundles
  <2>1. ScanPart' /\ VisitPart'
    BY <1>8 DEF GetHermesBundles, StorePart, ScanPart, VisitPart, Scanning, Visiting, HasEntries
  <2>2. QED
    BY <1>6, <1>8, <2>1 DEF GetHermesBundles
<1>9. CASE Scan
  <2>1. /\ SubSeq(anchored, lastSavedBlock + 1, Len(anchored)) \in Seq(Bundles)
        /\ ToSet(SubSeq(anchored, lastSavedBlock + 1, Len(anchored))) \subseteq ToSet(anchored)
    BY RestElements DEF ChainPart, ScanPart
  <2>2. added' \in Seq(known')
    <3>1. CASE lastSavedBlock = Len(anchored)
      BY <1>9, <3>1 DEF Scan, ScanPart
    <3>2. CASE lastSavedBlock # Len(anchored)
      BY <1>9, <3>2, <2>1, ElementsSeq DEF Scan
    <3>3. QED
      BY <3>1, <3>2
  <2>3. ScanPart'
    <3>1. CASE lastSavedBlock = Len(anchored)
      BY <1>9, <3>1 DEF Scan, ScanPart
    <3>2. CASE lastSavedBlock # Len(anchored)
      <4>1. /\ ToSet(added') \subseteq ToSet(anchored) /\ known' = known \cup ToSet(added')
            /\ lastSavedBlock' = Len(anchored) /\ pc' = "saveBlock"
            /\ UNCHANGED <<anchored, savedBlock, copy, stored>>
        BY <1>9, <2>1, <3>2 DEF Scan
      <4>2. QED
        BY <1>0, <2>2, <4>1 DEF ScanPart
    <3>3. QED
      BY <3>1, <3>2
  <2>4. VisitPart'
    BY <1>9, <2>1 DEF Scan, VisitPart, Scanning, Visiting, HasEntries
  <2>5. QED
    BY <1>6, <1>9, <2>3, <2>4 DEF Scan
<1>10. CASE SaveBlock
  <2>1. ScanPart' /\ VisitPart'
    BY <1>10 DEF SaveBlock, scanVars, ScanPart, VisitPart, Scanning, Visiting, HasEntries
  <2>2. QED
    BY <1>6, <1>10, <2>1 DEF SaveBlock
<1>11. CASE InsertOne
  <2>1. ScanPart'
    <3>1. CASE added = <<>>
      BY <1>11, <3>1 DEF InsertOne, ScanPart
    <3>2. CASE added # <<>>
      <4>1. Tail(added) \in Seq(known) /\ Head(added) \in known
        BY <3>2, TailElements DEF ScanPart
      <4>2. QED
        BY <1>11, <3>2, <4>1 DEF InsertOne, ScanPart
    <3>3. QED
      BY <3>1, <3>2
  <2>2. VisitPart'
    BY <1>11 DEF InsertOne, VisitPart, Scanning, Visiting, HasEntries
  <2>3. QED
    BY <1>6, <1>11, <2>1, <2>2 DEF InsertOne
<1>12. CASE SaveFails
  <2>1. ScanPart' /\ VisitPart'
    BY <1>12, EmptySeq DEF SaveFails, ScanPart, VisitPart, Scanning, Visiting, HasEntries
  <2>2. QED
    BY <1>6, <1>12, <2>1 DEF SaveFails
<1>13. CASE Compare
  <2>1. ScanPart' /\ VisitPart'
    BY <1>13 DEF Compare, scanVars, ScanPart, VisitPart, Scanning, Visiting, HasEntries
  <2>2. QED
    BY <1>6, <1>13, <2>1 DEF Compare
<1>14. CASE NextBundle
  <2>1. ScanPart'
    BY <1>14 DEF NextBundle, scanVars, ScanPart
  <2>2. VisitPart'
    <3>1. PICK b \in missing :
            /\ missing' = missing \ {b}
            /\ \/ /\ bundle' = b /\ donors' = shelterers[b] /\ awaited' = shelterers[b] /\ pc' = "donor"
                  /\ shelterers[b] # {}
               \/ UNCHANGED <<bundle, donors, awaited, pc>>
      BY <1>14 DEF NextBundle
    <3>2. b \in Bundles /\ shelterers[b] \subseteq Donors /\ b # NoBundle
      BY <1>0 DEF VisitPart, ChainPart
    <3>3. UNCHANGED <<known, donor, entries, documents, shelterers>> /\ pc = "next"
      BY <1>14 DEF NextBundle, scanVars
    <3>4. QED
      BY <3>1, <3>2, <3>3 DEF VisitPart, Scanning, Visiting, HasEntries
  <2>3. QED
    BY <1>6, <1>14, <2>1, <2>2 DEF NextBundle
<1>15. CASE ChooseDonor
  <2>1. ScanPart'
    BY <1>15 DEF ChooseDonor, EndOfBundle, scanVars, ScanPart
  <2>2. VisitPart'
    BY <1>15 DEF ChooseDonor, EndOfBundle, scanVars, VisitPart, Scanning, Visiting, HasEntries
  <2>3. QED
    BY <1>6, <1>15, <2>1, <2>2 DEF ChooseDonor
<1>16. CASE CreateBundleMetadata
  <2>1. StorePart'
    BY <1>0, <1>16 DEF CreateBundleMetadata, StorePart, VisitPart, Visiting
  <2>2. ScanPart' /\ VisitPart'
    BY <1>16 DEF CreateBundleMetadata, scanVars, ScanPart, VisitPart, Scanning, Visiting, HasEntries
  <2>3. QED
    BY <1>6, <2>1, <2>2
<1>17. CASE DownloadBundle
  <2>1. ScanPart'
    BY <1>17 DEF DownloadBundle, scanVars, ScanPart
  <2>2. VisitPart'
    BY <1>0, <1>17 DEF DownloadBundle, scanVars, ChainPart, VisitPart, Scanning, Visiting, HasEntries
  <2>3. QED
    BY <1>6, <1>17, <2>1, <2>2 DEF DownloadBundle
<1>18. CASE Delete
  <2>1. ScanPart' /\ VisitPart'
    BY <1>18 DEF Delete, scanVars, ScanPart, VisitPart, Scanning, Visiting, HasEntries
  <2>2. QED
    BY <1>6, <1>18, <2>1 DEF Delete
<1>19. CASE IsBundleStored
  <2>1. ScanPart'
    BY <1>19 DEF IsBundleStored, EndOfBundle, scanVars, ScanPart
  <2>2. VisitPart'
    BY <1>19 DEF IsBundleStored, EndOfBundle, scanVars, VisitPart, Scanning, Visiting, HasEntries
  <2>3. QED
    BY <1>6, <1>19, <2>1, <2>2 DEF IsBundleStored
<1>20. CASE StoreBundle
  <2>1. StorePart'
    BY <1>20 DEF StoreBundle, StorePart, VisitPart, Visiting
  <2>2. ScanPart' /\ VisitPart'
    BY <1>20 DEF StoreBundle, scanVars, ScanPart, VisitPart, Scanning, Visiting, HasEntries
  <2>3. QED
    BY <1>6, <2>1, <2>2
<1>21. CASE ParseEntry
  <2>1. StorePart'
    BY <1>21 DEF ParseEntry, StorePart, VisitPart
  <2>2. ScanPart'
    BY <1>21 DEF ParseEntry, EndOfBundle, scanVars, ScanPart
  <2>3. VisitPart'
    BY <1>21 DEF ParseEntry, EndOfBundle, scanVars, VisitPart, Scanning, Visiting, HasEntries
  <2>4. QED
    BY <1>6, <2>1, <2>2, <2>3
<1>22. CASE DonorDoesNotAnswer \/ EntryIsRefused \/ AttemptFails
  <2>1. /\ TryNextDonor /\ UNCHANGED <<chainVars, copyVars, scanVars, missing>>
        /\ pc \in Visiting \ {"next", "donor"}
        /\ awaited' \subseteq awaited
        /\ unreached' = unreached \/ (unreached' = unreached \cup {bundle} /\ pc = "download")
    BY <1>22 DEF DonorDoesNotAnswer, EntryIsRefused, AttemptFails, Forsaken, Visiting
  <2>2. StorePart'
    BY <2>1 DEF TryNextDonor, StorePart, VisitPart, Visiting
  <2>3. ScanPart'
    BY <2>1 DEF TryNextDonor, scanVars, ScanPart, Visiting
  <2>4. VisitPart'
    BY <2>1 DEF TryNextDonor, scanVars, VisitPart, Scanning, Visiting, HasEntries
  <2>5. QED
    BY <1>6, <2>2, <2>3, <2>4
<1>23. QED
  BY <1>7, <1>8, <1>9, <1>10, <1>11, <1>12, <1>13, <1>14, <1>15, <1>16, <1>17, <1>18, <1>19,
     <1>20, <1>21, <1>22 DEF RestoreBundles

LEMMA TypeSurroundings ==
  ASSUME TypeInv, Surroundings, UNCHANGED <<collectionVars, backupVars, workVars, ghostVars>>
  PROVE  TypeInv'
<1> USE RestorerAssumption, BackupAssumption DEF TypeInv
<1> USE PartsKept
<1> USE DEF chainVars, storeVars, copyVars, visitVars, scanVars, backupVars
<1>0. known \subseteq Bundles
  BY SequenceElements DEF ChainPart, ScanPart
<1>1. CollectionPart' /\ BackupPart'
  BY DEF Surroundings, StoreNewBundle, UploadBundle, Shelter, BackupPart, workVars
<1>2. ASSUME NEW b \in Bundles, StoreNewBundle(b) PROVE TypeInv'
  <2>1. Unbundled \subseteq EntitiesUpTo(made)
    BY DEF Unbundled, StorePart
  <2>2. ChainPart' /\ StorePart'
    BY <1>2, <2>1 DEF StoreNewBundle, ChainPart, StorePart
  <2>3. ScanPart' /\ VisitPart'
    BY <1>2 DEF StoreNewBundle, ScanPart, VisitPart
  <2>4. QED
    BY <1>1, <2>2, <2>3
<1>3. ASSUME NEW b \in Bundles, UploadBundle(b) PROVE TypeInv'
  <2>1. anchored' = anchored \/ anchored' = Append(anchored, b)
    BY <1>3 DEF UploadBundle
  <2>2. /\ anchored' \in Seq(Bundles) /\ Len(anchored) \in Nat
        /\ Len(anchored') \in Nat /\ Len(anchored') >= Len(anchored)
        /\ ToSet(anchored) \subseteq ToSet(anchored')
    <3>1. CASE anchored' = anchored
      BY <3>1, SequenceElements DEF ChainPart
    <3>2. CASE anchored' = Append(anchored, b)
      BY <3>2, AppendElements, SequenceElements DEF ChainPart
    <3>3. QED
      BY <2>1, <3>1, <3>2
  <2>3. ChainPart' /\ StorePart'
    BY <1>3, <2>2 DEF UploadBundle, ChainPart, StorePart
  <2>4. ScanPart'
    BY <1>3, <2>2 DEF UploadBundle, ScanPart
  <2>5. VisitPart'
    BY <1>3 DEF UploadBundle, VisitPart
  <2>6. QED
    BY <1>1, <2>3, <2>4, <2>5
<1>4. ASSUME NEW b \in Bundles, NEW d \in Donors, Shelter(b, d) PROVE TypeInv'
  <2>1. ChainPart' /\ StorePart'
    BY <1>4 DEF Shelter, ChainPart, StorePart
  <2>2. ScanPart'
    BY <1>4 DEF Shelter, ScanPart
  <2>3. bundle # NoBundle => shelterers[bundle] \subseteq shelterers'[bundle]
    BY <1>0, <1>4 DEF Shelter, ChainPart, VisitPart
  <2>4. VisitPart'
    BY <1>4, <2>3 DEF Shelter, VisitPart
  <2>5. QED
    BY <1>1, <2>1, <2>2, <2>4
<1>5. QED
  BY <1>2, <1>3, <1>4 DEF Surroundings

\* The restorer's variables when it is not at work.
LEMMA RestorerIdle ==
  ASSUME TypeInv, UNCHANGED <<scanVars, visitVars, copyVars, anchored, shelterers, documents>>,
         pc \notin Scanning \cup Visiting \/ (pc = "next" /\ missing = {}),
         pc' \in Restoring \cup Started, made' \in Nat, made <= made'
  PROVE  ScanPart' /\ VisitPart'
<1> USE DEF TypeInv, scanVars, visitVars, copyVars, Scanning, Visiting, HasEntries, Restoring,
            Started, Saving
<1>1. ScanPart'
  BY DEF ScanPart
<1>2. entries = {} /\ bundle = NoBundle /\ donor = NoDonor
  BY DEF VisitPart
<1>3. VisitPart'
  BY <1>2 DEF VisitPart
<1>4. QED
  BY <1>1, <1>3

LEMMA CollectionNames ==
  /\ \A i \in 1..Len(Collections) : Collections[i] \in Names
  /\ Len(Collections) \in Nat \ {0}
BY BackupAssumption, LenProperties, SequenceElements DEF Names

LEMMA TypeRestore ==
  ASSUME TypeInv, RestoreCollections
  PROVE  TypeInv'
<1> USE RestorerAssumption, BackupAssumption, CollectionNames DEF TypeInv, Goto
<1> USE DEF restorerButPc, Kept, backupVars
<1>1. /\ UNCHANGED <<restorerButPc, backupVars, key, written, lostAt, losses, read>>
      /\ troubles' \in 0..MaxTroubles
      /\ pc \in Restoring \/ (pc = "next" /\ missing = {})
      /\ pc' \in Restoring \cup Started
  <2> USE DEF Restoring, Started, Trouble, ChainPart, ghostVars
  <2>1. CASE EndOfBundles
    BY <2>1 DEF EndOfBundles
  <2>2. CASE BeginRestore \/ RestoreFails
    BY <2>2 DEF BeginRestore, RestoreFails
  <2>3. CASE DropOld
    BY <2>3 DEF DropOld
  <2>4. CASE Rename
    BY <2>4 DEF Rename
  <2>5. CASE InsertMany
    BY <2>5 DEF InsertMany, NextCollection
  <2>6. QED
    BY <2>1, <2>2, <2>3, <2>4, <2>5 DEF RestoreCollections
<1>2. ChainPart' /\ StorePart'
  BY <1>1, PartsKept DEF ChainPart, chainVars
<1>3. ScanPart' /\ VisitPart'
  BY <1>1, RestorerIdle DEF chainVars, storeVars, Restoring, Scanning, Visiting, BackupPart
<1>4. CollectionPart' /\ BackupPart'
  <2> USE <1>1 DEF Restoring, Started, Saving, Loop, ghostVars, collectionVars
  <2>1. CASE EndOfBundles
    BY <2>1 DEF EndOfBundles, CollectionPart, BackupPart
  <2>2. CASE BeginRestore
    <3>1. Latest \in 0..made
      BY LatestIs DEF BackupPart
    <3>2. QED
      BY <2>2, <3>1 DEF BeginRestore, CollectionPart, BackupPart
  <2>3. CASE RestoreFails
    BY <2>3 DEF RestoreFails, CollectionPart, BackupPart
  <2>4. CASE DropOld
    BY <2>4 DEF DropOld, CollectionPart, BackupPart
  <2>5. CASE Rename
    <3>1. Collections[at] \in Names
      BY DEF BackupPart
    <3>2. CollectionPart'
      BY <2>5, <3>1 DEF Rename, CollectionPart
    <3>3. BackupPart'
      BY <2>5 DEF Rename, BackupPart
    <3>4. QED
      BY <3>2, <3>3
  <2>6. CASE InsertMany
    <3>1. Collections[at] \in Names /\ data[backup].docs[Collections[at]] \subseteq Docs
      BY <2>6 DEF BackupPart, InsertMany
    <3>2. CollectionPart'
      BY <2>6, <3>1 DEF InsertMany, CollectionPart
    <3>3. BackupPart'
      BY <2>6 DEF InsertMany, NextCollection, BackupPart
    <3>4. QED
      BY <3>2, <3>3
  <2>7. QED
    BY <2>1, <2>2, <2>3, <2>4, <2>5, <2>6 DEF RestoreCollections
<1>5. QED
  BY <1>2, <1>3, <1>4

LEMMA TypeSave ==
  ASSUME TypeInv, Save
  PROVE  TypeInv'
<1> USE RestorerAssumption, BackupAssumption, CollectionNames DEF TypeInv, Goto
<1> USE DEF restorerButPc, saveUnchanged, backupVars, workVars, ghostVars, collectionVars
<1>1. /\ UNCHANGED <<chainVars, documents, proven, files, wrong, unreached, copyVars, scanVars, visitVars>>
      /\ UNCHANGED <<collectionVars, ghostVars, troubles>>
      /\ made' \in 0..MaxBackups /\ made <= made'
      /\ pc \in Started /\ pc' \in Started
  BY DEF Save, BeginSave, ReadCollection, StoreAsset, StoreEvent, BackupFails, storeVars,
         NextCollection, Started, Saving, BackupPart
<1>2. EntitiesUpTo(made) \subseteq EntitiesUpTo(made')
  BY <1>1 DEF EntitiesUpTo, BackupPart
<1>3. ChainPart'
  BY <1>1, <1>2 DEF ChainPart, chainVars
<1>4. StorePart'
  <2>1. entities' \subseteq EntitiesUpTo(made')
    <3>1. CASE StoreAsset
      <4>1. AssetOf(made') \in EntitiesUpTo(made')
        BY <1>1, <3>1 DEF EntitiesUpTo, StoreAsset, BackupPart
      <4>2. QED
        BY <1>2, <3>1, <4>1 DEF StoreAsset, StorePart
    <3>2. CASE StoreEvent
      <4>1. EventOf(made) \in EntitiesUpTo(made')
        BY <1>1, <3>2 DEF EntitiesUpTo, StoreEvent, BackupPart
      <4>2. QED
        BY <1>2, <3>2, <4>1 DEF StoreEvent, StorePart
    <3>3. CASE UNCHANGED entities
      BY <1>2, <3>3 DEF StorePart
    <3>4. QED
      BY <3>1, <3>2, <3>3 DEF Save, BeginSave, ReadCollection, BackupFails, storeVars
  <2>2. QED
    BY <1>1, <2>1 DEF StorePart
<1>5. ScanPart' /\ VisitPart'
  <2>1. UNCHANGED <<scanVars, visitVars, copyVars, anchored, shelterers, documents>>
    BY <1>1 DEF chainVars
  <2>2. pc \notin Scanning \cup Visiting
    BY <1>1 DEF Started, Saving, Scanning, Visiting
  <2>3. made' \in Nat /\ pc' \in Restoring \cup Started
    BY <1>1
  <2>4. QED
    BY <1>1, <2>1, <2>2, <2>3, RestorerIdle
<1>6. CollectionPart'
  BY <1>1, PartsKept
<1>7. BackupPart'
  <2> USE <1>1 DEF Started, Saving, Loop
  <2>1. CASE BeginSave
    BY <2>1 DEF BeginSave, BackupPart
  <2>2. CASE ReadCollection
    <3>1. Collections[at] \in Names /\ cols[Collections[at]] \subseteq Docs /\ NoDocs \in [Names -> SUBSET Docs]
      BY DEF BackupPart, CollectionPart, NoDocs
    <3>2. read' \in [Names -> SUBSET Docs]
      BY <2>2, <3>1 DEF ReadCollection, BackupPart
    <3>3. QED
      BY <2>2, <3>2 DEF ReadCollection, NextCollection, BackupPart
  <2>3. CASE StoreAsset
    BY <2>3 DEF StoreAsset, BackupPart
  <2>4. CASE StoreEvent
    <3>1. NoDocs \in [Names -> SUBSET Docs]
      BY DEF NoDocs
    <3>2. key \in Keys \cup {NoKey} /\ made \in 1..MaxBackups
      BY <2>4 DEF CollectionPart, BackupPart, StoreEvent
    <3>3. QED
      BY <2>4, <3>1, <3>2 DEF StoreEvent, BackupPart
  <2>5. CASE BackupFails
    <3>1. NoDocs \in [Names -> SUBSET Docs]
      BY DEF NoDocs
    <3>2. QED
      BY <2>5, <3>1 DEF BackupFails, BackupPart
  <2>6. QED
    BY <2>1, <2>2, <2>3, <2>4, <2>5 DEF Save
<1>8. QED
  BY <1>3, <1>4, <1>5, <1>6, <1>7

LEMMA TypeStart ==
  ASSUME TypeInv, Restart \/ LoseDatabase
  PROVE  TypeInv'
<1> USE RestorerAssumption, BackupAssumption, CollectionNames DEF TypeInv, Goto
<1>1. NoDocs \in [Names -> SUBSET Docs] /\ 0 \in 0..Len(anchored) /\ <<>> \in Seq({})
  BY SequenceElements, EmptySeq DEF NoDocs, ChainPart
<1>2. ChainPart'
  BY DEF Restart, LoseDatabase, ChainPart, chainVars, Trouble, backupVars
<1>3. StorePart'
  BY DEF Restart, LoseDatabase, EmptyDatabase, StorePart, storeVars, backupVars
<1>4. ScanPart'
  BY <1>1 DEF Restart, LoseDatabase, EmptyDatabase, StartAgain, ScanPart, chainVars, copyVars
<1>5. VisitPart'
  BY DEF Restart, LoseDatabase, StartAgain, VisitPart, Visiting
<1>6. CollectionPart'
  BY <1>1 DEF Restart, LoseDatabase, CollectionPart, collectionVars, ghostVars
<1>7. BackupPart'
  BY <1>1 DEF Restart, LoseDatabase, StartAgain, BackupPart, backupVars, Loop, Scanning
<1>8. QED
  BY <1>2, <1>3, <1>4, <1>5, <1>6, <1>7

LEMMA TypeWrite ==
  ASSUME TypeInv, NEW c \in Names, Write(c)
  PROVE  TypeInv'
<1> USE DEF TypeInv, Write, restorerVars, backupVars
<1>1. ChainPart' /\ StorePart'
  BY PartsKept
<1>2. ScanPart' /\ VisitPart'
  BY DEF ScanPart, VisitPart, chainVars, storeVars, copyVars, scanVars, visitVars
<1>3. CollectionPart'
  BY BackupAssumption DEF CollectionPart, Docs
<1>4. BackupPart'
  BY DEF BackupPart, workVars
<1>5. QED
  BY <1>1, <1>2, <1>3, <1>4

LEMMA TypeStep == TypeInv /\ [Next]_vars => TypeInv'
<1> SUFFICES ASSUME TypeInv, [Next]_vars PROVE TypeInv'
  OBVIOUS
<1>1. CASE UNCHANGED vars
  BY <1>1 DEF vars, restorerVars, chainVars, storeVars, copyVars, scanVars, visitVars, collectionVars,
     backupVars, workVars, ghostVars, TypeInv, ChainPart, StorePart, ScanPart, VisitPart,
     CollectionPart, BackupPart
<1>2. QED
  BY <1>1, TypeRestorer, TypeSurroundings, TypeRestore, TypeSave, TypeWrite, TypeStart DEF Next, Bundling

(* Whatever fails, restarts and is lost, the variables keep their types: in        *)
(* particular the restorer has a bundle, a donor or entries in hand only where it  *)
(* works on them, and no entity comes back that no backup has made.               *)
THEOREM TypeCorrect == Spec => []TypeOK
  BY TypeParts, TypeInit, TypeStep, PTL DEF Spec

-----------------------------------------------------------------------------
(* Bundles *)

\* The bundle at hand is one of the chain's.
LEMMA AtHand ==
  ASSUME TypeInv
  PROVE  /\ known \subseteq ToSet(anchored) /\ ToSet(anchored) \subseteq Bundles
         /\ Len(anchored) \in Nat /\ \A i \in 1..Len(anchored) : anchored[i] \in ToSet(anchored)
         /\ NoBundle \notin ToSet(anchored)
         /\ bundle # NoBundle => bundle \in ToSet(anchored)
BY RestorerAssumption, SequenceElements DEF TypeInv, ChainPart, ScanPart, VisitPart

LEMMA ComposedStep ==
  ASSUME TypeInv, Composed, [Next]_vars
  PROVE  Composed'
<1> USE AtHand
<1>1. CASE UNCHANGED <<anchored, documents, content>>
  BY <1>1 DEF Composed
<1>2. ASSUME NEW b \in Bundles, StoreNewBundle(b) PROVE Composed'
  BY <1>2 DEF StoreNewBundle, Composed, TypeInv, ChainPart
<1>3. ASSUME NEW b \in Bundles, UploadBundle(b) PROVE Composed'
  <2>1. ToSet(anchored') \subseteq ToSet(anchored) \cup {b}
    <3>1. CASE anchored' = anchored
      BY <3>1
    <3>2. CASE anchored' = Append(anchored, b)
      <4>1. ToSet(Append(anchored, b)) = ToSet(anchored) \cup {b}
        BY AppendElements DEF TypeInv, ChainPart
      <4>2. QED
        BY <3>2, <4>1
    <3>3. QED
      BY <1>3, <3>1, <3>2 DEF UploadBundle
  <2>2. QED
    BY <1>3, <2>1 DEF UploadBundle, Composed
<1>4. CASE CreateBundleMetadata
  <2>1. bundle \in ToSet(anchored)
    BY <1>4 DEF CreateBundleMetadata, TypeInv, VisitPart, Visiting
  <2>2. QED
    BY <1>4, <2>1 DEF CreateBundleMetadata, Composed, chainVars
<1>5. CASE LoseDatabase
  BY <1>5 DEF LoseDatabase, EmptyDatabase, Composed, chainVars
<1>6. QED
  <2>1. CASE Bundling
    <3>1. CASE RestoreBundles
      BY <1>1, <1>4, <3>1 DEF RestoreBundles, Load, GetHermesBundles, Scan, SaveBlock, InsertOne,
         SaveFails, Compare, NextBundle, ChooseDonor, DownloadBundle, Delete, IsBundleStored,
         StoreBundle, ParseEntry, DonorDoesNotAnswer, EntryIsRefused, AttemptFails, EndOfBundle, TryNextDonor,
         chainVars, storeVars
    <3>2. CASE Surroundings
      BY <1>1, <1>2, <1>3, <3>2 DEF Surroundings, Shelter, storeVars
    <3>3. QED
      BY <2>1, <3>1, <3>2 DEF Bundling
  <2>2. CASE RestoreCollections
    BY <1>1, <2>2 DEF RestoreCollections, EndOfBundles, BeginRestore, RestoreFails, DropOld, Rename,
       InsertMany, Kept, restorerButPc, chainVars, storeVars
  <2>3. CASE Save
    BY <1>1, <2>3 DEF Save, BeginSave, ReadCollection, StoreAsset, StoreEvent, BackupFails,
       restorerButPc, saveUnchanged, chainVars, storeVars
  <2>4. CASE (\E c \in Names : Write(c)) \/ Restart \/ UNCHANGED vars
    BY <1>1, <2>4 DEF Write, Restart, vars, restorerVars, chainVars, storeVars
  <2>5. QED
    BY <1>5, <2>1, <2>2, <2>3, <2>4 DEF Next

\* What is back stays back while bodies and entities are only added, and no Atlas node
\* gets a body.
LEMMA RecoveredStays ==
  ASSUME TypeInv, files \subseteq files', entities \subseteq entities', UNCHANGED <<shelterers, content>>,
         wrong \subseteq wrong', unreached \subseteq unreached'
  PROVE  Recovered \subseteq Recovered'
BY DEF Recovered

\* The restorer rests.
LEMMA BundleKept ==
  ASSUME TypeInv, BundleInv, UNCHANGED <<chainVars, documents, files, wrong, unreached>>,
         UNCHANGED <<copyVars, scanVars, visitVars>>,
         entities \subseteq entities', pc \in Restoring \cup Started, pc' \in Restoring \cup Started
  PROVE  BundleInv'
<1> USE DEF BundleInv, chainVars, copyVars, scanVars, visitVars
<1>1. Recovered \subseteq Recovered'
  BY RecoveredStays
<1>2. pc' \notin Scanning \cup Visiting /\ pc \notin Scanning \cup Visiting
  BY DEF Restoring, Started, Saving, Scanning, Visiting
<1>3. bundle = NoBundle
  BY <1>2 DEF TypeInv, VisitPart
<1>4. HalfPart'
  BY <1>2, <1>3 DEF HalfPart, Visiting
<1>5. FoundPart'
  BY <1>1, <1>2 DEF FoundPart, Scanning
<1>6. QED
  BY <1>4, <1>5

LEMMA AnchoredBundles ==
  ASSUME TypeInv, Surroundings
  PROVE  ToSet(anchored') \subseteq Bundles
<1>1. ASSUME NEW b \in Bundles, UploadBundle(b) PROVE anchored' \in Seq(Bundles)
  BY <1>1, AppendElements DEF UploadBundle, TypeInv, ChainPart
<1>2. anchored' \in Seq(Bundles)
  BY <1>1 DEF Surroundings, StoreNewBundle, Shelter, TypeInv, ChainPart
<1>3. QED
  BY <1>2, SequenceElements

\* What is anchored is back, or the bundle that is being restored.
LEMMA RecoveredSurroundings ==
  ASSUME TypeInv, Composed, BundleInv, Surroundings
  PROVE  /\ UNCHANGED <<entities, copyVars, pc, scanVars, visitVars>>
         /\ Recovered \subseteq Recovered'
         /\ documents' \subseteq documents \cup Recovered'
         /\ ToSet(anchored') \subseteq ToSet(anchored) \cup Recovered' \cup {bundle}
         /\ \A i \in 1..Len(anchored) : anchored'[i] = anchored[i]
<1> USE AtHand DEF BundleInv
<1> USE DEF copyVars, scanVars, visitVars, storeVars
<1>1. ASSUME NEW b \in Bundles, StoreNewBundle(b)
      PROVE  Recovered \subseteq Recovered' /\ b \in Recovered'
  <2>1. content[b] = {} /\ content' = [content EXCEPT ![b] = Unbundled] /\ Unbundled \subseteq entities
    BY <1>1 DEF StoreNewBundle, Assembled, Unbundled
  <2>2. /\ \A c \in Bundles \ {b} : content'[c] = content[c]
        /\ content'[b] \subseteq entities
    BY <2>1 DEF TypeInv, ChainPart
  <2>3. QED
    BY <1>1, <2>2 DEF StoreNewBundle, Recovered
<1>2. ASSUME NEW b \in Bundles, UploadBundle(b)
      PROVE  /\ Recovered \subseteq Recovered' /\ b \in Recovered' \cup {bundle}
             /\ ToSet(anchored') \subseteq ToSet(anchored) \cup {b}
             /\ \A i \in 1..Len(anchored) : anchored'[i] = anchored[i]
  <2>1. Recovered' = Recovered
    BY <1>2 DEF UploadBundle, Recovered
  <2>2. CASE anchored' = anchored
    BY <1>2, <2>1, <2>2 DEF UploadBundle, FoundPart
  <2>3. CASE anchored' = Append(anchored, b)
    <3>1. ToSet(Append(anchored, b)) = ToSet(anchored) \cup {b}
      BY AppendElements DEF TypeInv, ChainPart
    <3>2. \A i \in 1..Len(anchored) : anchored'[i] = anchored[i]
      BY <2>3, AppendElements DEF TypeInv, ChainPart
    <3>3. QED
      BY <1>2, <2>1, <2>3, <3>1, <3>2 DEF UploadBundle, FoundPart
  <2>4. QED
    BY <1>2, <2>2, <2>3 DEF UploadBundle
<1>3. ASSUME NEW b \in Bundles, NEW d \in Donors, Shelter(b, d) PROVE Recovered \subseteq Recovered'
  <2>1. \A c \in Bundles \ {b} : shelterers'[c] = shelterers[c]
    BY <1>3 DEF Shelter, TypeInv, ChainPart
  <2>2. shelterers[b] = {} => b \in files /\ b # bundle
    BY <1>3 DEF Shelter, TypeInv, VisitPart
  <2>3. shelterers[b] = {} => b \in wrong \/ content[b] \subseteq entities
    BY <2>2 DEF HalfPart
  <2>4. QED
    BY <1>3, <2>1, <2>2, <2>3 DEF Shelter, Recovered
<1>5. UNCHANGED <<entities, copyVars, pc, scanVars, visitVars>>
  BY DEF Surroundings, StoreNewBundle, UploadBundle, Shelter
<1>6. QED
  BY <1>1, <1>2, <1>3, <1>5 DEF Surroundings, StoreNewBundle, UploadBundle, Shelter

LEMMA BundleSurroundings ==
  ASSUME TypeInv, Composed, BundleInv, Surroundings
  PROVE  BundleInv'
<1> USE AtHand, RecoveredSurroundings DEF BundleInv
<1> USE DEF copyVars, scanVars, visitVars, storeVars
<1>1. HalfPart'
  <2>1. ASSUME NEW b \in Bundles, StoreNewBundle(b) PROVE HalfPart'
    <3>1. content[b] = {} /\ content' = [content EXCEPT ![b] = Unbundled] /\ Unbundled \subseteq entities
      BY <2>1 DEF StoreNewBundle, Assembled, Unbundled
    <3>2. b \notin ToSet(anchored) \cup documents \cup files
      BY <3>1 DEF Composed, TypeInv, StorePart
    <3>3. /\ \A c \in Bundles \ {b} : content'[c] = content[c]
          /\ content'[b] \subseteq entities
      BY <3>1 DEF TypeInv, ChainPart
    <3>4. files \subseteq Bundles /\ (bundle # NoBundle => bundle \in Bundles \ {b})
      BY <3>2 DEF TypeInv, StorePart
    <3>5. QED
      BY <2>1, <3>3, <3>4 DEF StoreNewBundle, HalfPart
  <2>2. ASSUME NEW b \in Bundles, UploadBundle(b) PROVE HalfPart'
    BY <2>2 DEF UploadBundle, HalfPart
  <2>3. ASSUME NEW b \in Bundles, NEW d \in Donors, Shelter(b, d) PROVE HalfPart'
    BY <2>3 DEF Shelter, HalfPart
  <2>4. QED
    BY <2>1, <2>2, <2>3 DEF Surroundings
<1>2. pc \notin Visiting => bundle = NoBundle
  BY DEF TypeInv, VisitPart
<1>3. (\A i \in 1..savedBlock : i \in 1..Len(anchored)) /\ (\A i \in 1..lastSavedBlock : i \in 1..Len(anchored))
  BY DEF TypeInv, ScanPart
<1>4. pc \notin Visiting => ToSet(anchored') \subseteq ToSet(anchored) \cup Recovered'
  <2>1. ToSet(anchored') \subseteq Bundles
    BY AnchoredBundles
  <2>2. QED
    BY <1>2, <2>1, RestorerAssumption
<1>5. FoundPart'
  BY <1>2, <1>3, <1>4 DEF FoundPart, Visiting, Restoring, Started, Saving
<1>6. QED
  BY <1>1, <1>5

\* The scan: what is behind the saved block and not in the copy is back.
LEMMA BundleScan ==
  ASSUME TypeInv, BundleInv, troubles = 0, troubles' = 0,
         Load \/ GetHermesBundles \/ Scan \/ SaveBlock \/ InsertOne \/ SaveFails \/ Compare
  PROVE  BundleInv'
<1> USE AtHand DEF BundleInv, Goto
<1>1. /\ UNCHANGED <<chainVars, storeVars, bundle, donors, donor, entries, awaited>>
      /\ pc \in Scanning /\ pc' \in Scanning \cup {"next"}
  BY DEF Load, GetHermesBundles, Scan, SaveBlock, InsertOne, SaveFails, Compare, Scanning, scanVars, visitVars
<1>2. bundle = NoBundle
  BY <1>1 DEF TypeInv, VisitPart, Scanning, Visiting
<1>3. Recovered' = Recovered
  BY <1>1 DEF Recovered, chainVars, storeVars
<1>4. HalfPart'
  BY <1>1, <1>2 DEF HalfPart, Scanning, chainVars, storeVars
<1>5. \A i \in 1..savedBlock : anchored[i] \in ToSet(anchored)
  BY DEF TypeInv, ScanPart
<1> USE <1>1, <1>2, <1>3, <1>5 DEF chainVars, storeVars
<1>6. CASE Load
  <2>1. added = <<>> /\ ToSet(added) = {}
    BY <1>6, NoElements DEF Load, TypeInv, ScanPart
  <2>2. lastSavedBlock' = savedBlock /\ known' = (IF savedBlock > 0 THEN copy ELSE {})
    BY <1>6 DEF Load, Trouble
  <2>3. \A i \in 1..savedBlock : anchored[i] \in copy \cup Recovered
    BY <2>1 DEF FoundPart
  <2>4. \A i \in 1..savedBlock : savedBlock > 0
    BY DEF TypeInv, ScanPart
  <2>5. FoundPart'
    BY <1>6, <2>1, <2>2, <2>3, <2>4 DEF Load, copyVars, FoundPart, Visiting, Restoring, Started, Saving
  <2>6. QED
    BY <1>4, <2>5
<1>7. CASE GetHermesBundles
  <2>1. documents \subseteq Recovered
    BY RestorerAssumption DEF FoundPart, TypeInv, StorePart
  <2>2. FoundPart'
    BY <1>7, <2>1 DEF GetHermesBundles, copyVars, FoundPart, Visiting, Restoring, Started, Saving
  <2>3. QED
    BY <1>4, <2>2
<1>8. CASE Scan
  <2>1. added = <<>> /\ ToSet(added) = {}
    BY <1>8, NoElements DEF Scan, TypeInv, ScanPart
  <2>2. \A i \in 1..savedBlock : anchored[i] \in copy \cup Recovered
    BY <2>1 DEF FoundPart
  <2>3. lastSavedBlock = savedBlock /\ \A i \in 1..lastSavedBlock : anchored[i] \in known \cup Recovered
    BY <1>8 DEF Scan, FoundPart
  <2>4. CASE lastSavedBlock = Len(anchored)
    <3>1. ToSet(anchored) \subseteq known \cup Recovered
      BY <2>3, <2>4, ElementsAre DEF TypeInv, ChainPart
    <3>2. FoundPart'
      BY <1>8, <2>4, <3>1 DEF Scan, copyVars, FoundPart, Visiting, Restoring, Started, Saving
    <3>3. QED
      BY <1>4, <3>2
  <2>5. CASE lastSavedBlock # Len(anchored)
    <3>1. /\ added' = SubSeq(anchored, lastSavedBlock + 1, Len(anchored))
          /\ known' = known \cup ToSet(added') /\ lastSavedBlock' = Len(anchored)
          /\ pc = "scan" /\ pc' = "saveBlock" /\ UNCHANGED <<copyVars, stored, missing>>
      BY <1>8, <2>5 DEF Scan, visitVars
    <3>2. \A i \in 1..Len(anchored) : i > lastSavedBlock => anchored[i] \in ToSet(added')
      BY <3>1, RestElements DEF TypeInv, ChainPart, ScanPart
    <3>3. \A i \in 1..Len(anchored) : i \in 1..lastSavedBlock \/ i > lastSavedBlock
      BY DEF TypeInv, ScanPart
    <3>4. ToSet(anchored) \subseteq known' \cup Recovered
      BY <2>3, <3>1, <3>2, <3>3, ElementsAre DEF TypeInv, ChainPart
    <3>5. \A i \in 1..Len(anchored) : anchored[i] \in copy \cup ToSet(added') \cup Recovered
      BY <2>2, <2>3, <3>2, <3>3
    <3>6. FoundPart'
      BY <2>2, <3>1, <3>4, <3>5 DEF copyVars, FoundPart, Visiting, Restoring, Started, Saving
    <3>7. QED
      BY <1>4, <3>6
  <2>6. QED
    BY <2>4, <2>5
<1>9. CASE SaveBlock
  <2>1. FoundPart'
    BY <1>9 DEF SaveBlock, scanVars, FoundPart, Visiting, Restoring, Started, Saving
  <2>2. QED
    BY <1>4, <2>1
<1>10. CASE InsertOne
  <2>1. copy' \cup ToSet(added') = copy \cup ToSet(added)
    <3>1. CASE added = <<>>
      BY <1>10, <3>1 DEF InsertOne
    <3>2. CASE added # <<>>
      <4>1. ToSet(added) = ToSet(Tail(added)) \cup {Head(added)}
        BY <3>2, TailElements DEF TypeInv, ScanPart
      <4>2. QED
        BY <1>10, <3>2, <4>1 DEF InsertOne
    <3>3. QED
      BY <3>1, <3>2
  <2>2. UNCHANGED <<savedBlock, lastSavedBlock, known, stored, missing>> /\ pc = "insert" /\ pc' \in {"insert", "compare"}
    BY <1>10 DEF InsertOne, visitVars
  <2>3. FoundPart'
    BY <2>1, <2>2 DEF FoundPart, Visiting, Restoring, Started, Saving
  <2>4. QED
    BY <1>4, <2>3
<1>11. CASE SaveFails
  BY <1>11 DEF SaveFails, Trouble
<1>12. CASE Compare
  <2>1. FoundPart'
    BY <1>12 DEF Compare, scanVars, copyVars, FoundPart, Restoring, Started, Saving
  <2>2. QED
    BY <1>4, <2>1
<1>13. QED
  BY <1>6, <1>7, <1>8, <1>9, <1>10, <1>11, <1>12

\* With a bundle that is back or that nobody has, the next bundle can be taken up.
LEMMA BundleEnds ==
  ASSUME TypeInv, BundleInv, UNCHANGED <<chainVars, documents, files, wrong, unreached>>,
         UNCHANGED <<savedBlock, scanVars, missing>>,
         copy' \subseteq copy, copy \subseteq copy' \cup {bundle}, entities \subseteq entities',
         bundle \in Recovered', \A b \in files \ wrong : content[b] \subseteq entities',
         pc \in Visiting \ {"next"}, EndOfBundle
  PROVE  BundleInv'
<1> USE DEF BundleInv, EndOfBundle, Goto, chainVars, scanVars
<1>1. Recovered \subseteq Recovered'
  BY RecoveredStays
<1>2. HalfPart'
  BY DEF HalfPart
<1>3. FoundPart'
  BY <1>1 DEF FoundPart, Visiting, Restoring, Started, Saving
<1>4. QED
  BY <1>2, <1>3

LEMMA BundleVisit ==
  ASSUME TypeInv, BundleInv, troubles = 0, troubles' = 0,
         \/ NextBundle \/ ChooseDonor \/ CreateBundleMetadata \/ DownloadBundle \/ Delete
         \/ IsBundleStored \/ StoreBundle \/ ParseEntry \/ DonorDoesNotAnswer \/ EntryIsRefused \/ AttemptFails
  PROVE  BundleInv'
<1> USE AtHand DEF BundleInv, Goto
<1> USE DEF chainVars, storeVars, copyVars, scanVars, visitVars
<1>1. pc \in Visiting /\ pc' \in Visiting
  BY DEF NextBundle, ChooseDonor, CreateBundleMetadata, DownloadBundle, Delete, IsBundleStored,
     StoreBundle, ParseEntry, DonorDoesNotAnswer, EntryIsRefused, AttemptFails, EndOfBundle, TryNextDonor, Visiting
<1>2. /\ ToSet(anchored) \subseteq missing \cup Recovered \cup {bundle}
      /\ documents \subseteq Recovered \cup {bundle}
      /\ \A i \in 1..savedBlock : anchored[i] \in copy \cup ToSet(added) \cup Recovered \cup {bundle}
  BY <1>1 DEF FoundPart
<1>3. ASSUME UNCHANGED <<anchored, savedBlock, added>>, Recovered \subseteq Recovered',
             ToSet(anchored) \subseteq missing' \cup Recovered' \cup {bundle'},
             documents' \subseteq Recovered' \cup {bundle'},
             \A i \in 1..savedBlock : anchored[i] \in copy' \cup ToSet(added) \cup Recovered' \cup {bundle'}
      PROVE  FoundPart'
  BY <1>1, <1>3 DEF FoundPart, Visiting, Restoring, Started, Saving
<1>4. CASE NextBundle
  <2>1. bundle = NoBundle /\ pc = "next"
    BY <1>4 DEF NextBundle, TypeInv, VisitPart, Visiting
  <2>2. PICK b \in missing :
          /\ missing' = missing \ {b}
          /\ \/ /\ bundle' = b /\ donors' = shelterers[b] /\ awaited' = shelterers[b] /\ pc' = "donor"
                /\ shelterers[b] # {}
             \/ shelterers[b] = {} /\ UNCHANGED <<bundle, donors, awaited, pc>>
    BY <1>4 DEF NextBundle, Trouble
  <2>3. UNCHANGED <<chainVars, storeVars, copy, added, savedBlock, donor, entries>>
    BY <1>4 DEF NextBundle
  <2>4. Recovered' = Recovered
    BY <2>3 DEF Recovered
  <2>5. b \in Bundles
    BY DEF TypeInv, VisitPart
  <2>6. shelterers[b] = {} => b \in Recovered
    BY <2>5 DEF Recovered
  <2>7. HalfPart'
    BY <2>1, <2>2, <2>3 DEF HalfPart
  <2>8. FoundPart'
    BY <1>2, <1>3, <2>1, <2>2, <2>3, <2>4, <2>6, RestorerAssumption DEF TypeInv, StorePart, ScanPart
  <2>9. QED
    BY <2>7, <2>8
<1>5. CASE ChooseDonor
  <2>1. UNCHANGED <<chainVars, storeVars, copyVars, scanVars, missing>>
    BY <1>5 DEF ChooseDonor
  <2>2. Recovered' = Recovered
    BY <2>1 DEF Recovered
  <2>3. bundle # NoBundle /\ bundle \in Bundles /\ pc = "donor"
    BY <1>5 DEF ChooseDonor, TypeInv, VisitPart, Visiting
  <2>4. CASE donors = {}
    <3>1. bundle \in Recovered'
      BY <2>2, <2>3, <2>4 DEF HalfPart, Recovered
    <3>2. \A b \in files \ wrong : content[b] \subseteq entities
      BY <2>3 DEF HalfPart
    <3>3. EndOfBundle
      BY <1>5, <2>4 DEF ChooseDonor
    <3>4. QED
      BY <1>1, <2>1, <2>3, <3>1, <3>2, <3>3, BundleEnds
  <2>5. CASE donors # {}
    <3>1. UNCHANGED <<bundle, donors, entries, awaited>> /\ pc' = "metadata"
      BY <1>5, <2>5 DEF ChooseDonor
    <3>2. HalfPart'
      BY <2>1, <2>3, <3>1 DEF HalfPart
    <3>3. FoundPart'
      BY <1>2, <1>3, <2>1, <2>2, <3>1
    <3>4. QED
      BY <3>2, <3>3
  <2>6. QED
    BY <2>4, <2>5
<1>6. CASE CreateBundleMetadata
  <2>1. Recovered' = Recovered
    BY <1>6 DEF CreateBundleMetadata, Recovered
  <2>2. HalfPart'
    BY <1>6 DEF CreateBundleMetadata, HalfPart
  <2>3. FoundPart'
    BY <1>2, <1>3, <1>6, <2>1 DEF CreateBundleMetadata
  <2>4. QED
    BY <2>2, <2>3
<1>7. CASE DownloadBundle
  <2>1. Recovered' = Recovered
    BY <1>7 DEF DownloadBundle, Recovered
  <2>2. HalfPart'
    BY <1>7 DEF DownloadBundle, HalfPart
  <2>3. FoundPart'
    BY <1>2, <1>3, <1>7, <2>1 DEF DownloadBundle
  <2>4. QED
    BY <2>2, <2>3
<1>8. CASE Delete
  <2>1. Recovered' = Recovered
    BY <1>8 DEF Delete, Recovered
  <2>2. HalfPart'
    BY <1>8 DEF Delete, HalfPart
  <2>3. FoundPart'
    BY <1>2, <1>3, <1>8, <2>1 DEF Delete
  <2>4. QED
    BY <2>2, <2>3
<1>9. CASE IsBundleStored
  <2>1. UNCHANGED <<chainVars, storeVars, copyVars, scanVars, missing>> /\ pc = "isStored"
    BY <1>9 DEF IsBundleStored
  <2>2. Recovered' = Recovered
    BY <2>1 DEF Recovered
  <2>3. \A b \in files \ wrong : content[b] \subseteq entities
    BY <2>1 DEF HalfPart
  <2>4. CASE bundle \in files
    <3>1. bundle \in Recovered'
      BY <2>2, <2>3, <2>4 DEF Recovered, TypeInv, StorePart
    <3>2. EndOfBundle
      BY <1>9, <2>4 DEF IsBundleStored
    <3>3. pc \in Visiting \ {"next"}
      BY <2>1 DEF Visiting
    <3>4. QED
      BY <2>1, <2>3, <3>1, <3>2, <3>3, BundleEnds
  <2>5. CASE bundle \notin files
    <3>1. UNCHANGED <<bundle, donors, entries, awaited>> /\ pc' = "storeBody"
      BY <1>9, <2>5 DEF IsBundleStored
    <3>2. HalfPart'
      BY <2>1, <3>1 DEF HalfPart
    <3>3. FoundPart'
      BY <1>2, <1>3, <2>1, <2>2, <3>1
    <3>4. QED
      BY <3>2, <3>3
  <2>6. QED
    BY <2>4, <2>5
<1>10. CASE StoreBundle
  <2>1. /\ UNCHANGED <<chainVars, entities, documents, unreached, copyVars, scanVars, visitVars>>
        /\ files' = files \cup {bundle} /\ wrong \subseteq wrong'
        /\ entries # content[bundle] => bundle \in wrong'
        /\ pc = "storeBody" /\ pc' = "entries"
    BY <1>10 DEF StoreBundle
  <2>2. Recovered \subseteq Recovered'
    BY <2>1, RecoveredStays
  <2>3. HalfPart'
    BY <2>1 DEF HalfPart
  <2>4. FoundPart'
    BY <1>2, <1>3, <2>1, <2>2
  <2>5. QED
    BY <2>3, <2>4
<1>11. CASE ParseEntry
  <2>1. /\ UNCHANGED <<chainVars, documents, files, wrong, unreached, copyVars, scanVars, missing>>
        /\ pc = "entries"
    BY <1>11 DEF ParseEntry
  <2>2. bundle \in files /\ bundle \in Bundles
    BY <2>1 DEF HalfPart, TypeInv, StorePart
  <2>3. CASE entries = {}
    <3>1. EndOfBundle /\ UNCHANGED entities
      BY <1>11, <2>3 DEF ParseEntry
    <3>2. \A b \in files \ wrong : content[b] \subseteq entities
      BY <2>3 DEF HalfPart
    <3>3. bundle \in Recovered'
      BY <2>1, <2>2, <3>1, <3>2 DEF Recovered
    <3>4. pc \in Visiting \ {"next"}
      BY <2>1 DEF Visiting
    <3>5. QED
      BY <2>1, <3>1, <3>2, <3>3, <3>4, BundleEnds
  <2>4. CASE entries # {}
    <3>1. PICK e \in entries :
            entities' = entities \cup {e} /\ entries' = entries \ {e}
            /\ UNCHANGED <<pc, bundle, donors, donor, awaited>>
      BY <1>11, <2>4 DEF ParseEntry
    <3>2. Recovered \subseteq Recovered'
      BY <2>1, <3>1, RecoveredStays
    <3>3. entities \cup entries \subseteq entities' \cup entries'
      BY <3>1
    <3>4. HalfPart'
      BY <2>1, <3>1, <3>3 DEF HalfPart
    <3>5. FoundPart'
      BY <1>2, <1>3, <2>1, <3>1, <3>2
    <3>6. QED
      BY <3>4, <3>5
  <2>5. QED
    BY <2>3, <2>4
<1>12. CASE DonorDoesNotAnswer \/ EntryIsRefused
  <2>1. /\ UNCHANGED <<chainVars, entities, documents, files, wrong, copyVars, scanVars, missing, bundle>>
        /\ pc' = "donor" /\ donors' = donors \ {donor} /\ unreached \subseteq unreached'
    BY <1>12 DEF DonorDoesNotAnswer, EntryIsRefused, TryNextDonor, Forsaken
  <2>2. Recovered \subseteq Recovered'
    BY <2>1, RecoveredStays
  <2>3. HalfPart'
    <3>1. CASE DonorDoesNotAnswer
      BY <2>1, <3>1 DEF DonorDoesNotAnswer, Forsaken, HalfPart
    <3>2. CASE EntryIsRefused
      BY <2>1, <3>2 DEF EntryIsRefused, HalfPart
    <3>3. QED
      BY <1>12, <3>1, <3>2
  <2>4. FoundPart'
    BY <1>2, <1>3, <2>1, <2>2
  <2>5. QED
    BY <2>3, <2>4
<1>13. CASE AttemptFails
  BY <1>13 DEF AttemptFails, Trouble
<1>14. QED
  BY <1>4, <1>5, <1>6, <1>7, <1>8, <1>9, <1>10, <1>11, <1>12, <1>13


\* A failure is not forgotten.
LEMMA TroublesGrow ==
  ASSUME TypeInv, [Next]_vars, troubles' = 0
  PROVE  troubles = 0
<1> USE DEF TypeInv, ChainPart, Trouble
<1>1. CASE UNCHANGED troubles \/ Trouble
  BY <1>1, RestorerAssumption
<1>2. CASE Bundling
  BY <1>1, <1>2 DEF Bundling, RestoreBundles, Surroundings, StoreNewBundle, UploadBundle, Shelter,
     Load, GetHermesBundles, Scan, SaveBlock, InsertOne, SaveFails, Compare, NextBundle, ChooseDonor,
     CreateBundleMetadata, DownloadBundle, Delete, IsBundleStored, StoreBundle, ParseEntry,
     DonorDoesNotAnswer, EntryIsRefused, AttemptFails
<1>3. CASE RestoreCollections
  BY <1>1, <1>3 DEF RestoreCollections, EndOfBundles, BeginRestore, RestoreFails, DropOld, Rename, InsertMany
<1>4. CASE Save
  BY <1>1, <1>4 DEF Save, BeginSave, ReadCollection, StoreAsset, StoreEvent, BackupFails
<1>5. CASE (\E c \in Names : Write(c)) \/ Restart \/ LoseDatabase \/ UNCHANGED vars
  BY <1>1, <1>5 DEF Write, Restart, LoseDatabase, vars, restorerVars
<1>6. QED
  BY <1>2, <1>3, <1>4, <1>5 DEF Next

\* The end of the visits: nothing is missing any more.
LEMMA BundlesEnd ==
  ASSUME TypeInv, BundleInv, EndOfBundles
  PROVE  BundleInv'
<1> USE AtHand DEF BundleInv, EndOfBundles, Goto, Kept, restorerButPc
<1> USE DEF chainVars, storeVars, copyVars, scanVars, visitVars
<1>1. bundle = NoBundle
  BY DEF TypeInv, VisitPart, Visiting
<1>2. Recovered' = Recovered
  BY DEF Recovered
<1>3. ToSet(anchored) \subseteq Recovered
  BY <1>1 DEF FoundPart, Visiting
<1>4. HalfPart'
  BY <1>1 DEF HalfPart
<1>5. FoundPart'
  BY <1>1, <1>2, <1>3 DEF FoundPart, Visiting, Restoring, Started, Saving
<1>6. QED
  BY <1>4, <1>5

\* A node starts again without a failure when it had started, or has lost everything.
LEMMA BundleStart ==
  ASSUME TypeInv, BundleInv, troubles = 0, troubles' = 0, Restart \/ LoseDatabase
  PROVE  BundleInv'
<1> USE AtHand DEF BundleInv, StartAgain, Goto
<1> USE DEF chainVars, storeVars, copyVars, scanVars, visitVars
<1>1. CASE Restart
  <2>1. pc \in Started
    BY <1>1 DEF Restart, Trouble
  <2>2. added = <<>> /\ bundle = NoBundle /\ pc \notin Visiting
    BY <2>1 DEF TypeInv, ScanPart, VisitPart, Started, Saving, Visiting
  <2>3. UNCHANGED <<chainVars, storeVars, copyVars>> /\ added' = <<>> /\ bundle' = NoBundle /\ pc' = "load"
    BY <1>1 DEF Restart
  <2>4. Recovered' = Recovered
    BY <2>3 DEF Recovered
  <2>5. pc # "entries"
    BY <2>2 DEF Visiting
  <2>6. HalfPart'
    BY <2>3, <2>5 DEF HalfPart
  <2>7. FoundPart'
    BY <2>2, <2>3, <2>4 DEF FoundPart, Visiting, Restoring, Started, Saving
  <2>8. QED
    BY <2>6, <2>7
<1>2. CASE LoseDatabase
  <2>1. HalfPart'
    BY <1>2 DEF LoseDatabase, EmptyDatabase, HalfPart
  <2>2. FoundPart'
    BY <1>2 DEF LoseDatabase, EmptyDatabase, FoundPart, Visiting, Restoring, Started, Saving
  <2>3. QED
    BY <2>1, <2>2
<1>3. QED
  BY <1>1, <1>2

LEMMA BundleStep ==
  ASSUME TypeInv, Composed, troubles = 0 => BundleInv, [Next]_vars
  PROVE  troubles' = 0 => BundleInv'
<1> SUFFICES ASSUME troubles' = 0, troubles = 0, BundleInv PROVE BundleInv'
  BY TroublesGrow
<1>1. CASE UNCHANGED restorerVars
  BY <1>1 DEF BundleInv, HalfPart, FoundPart, Recovered, restorerVars, chainVars, storeVars, copyVars,
     scanVars, visitVars
<1>2. CASE Bundling
  BY <1>2, BundleSurroundings, BundleScan, BundleVisit DEF Bundling, RestoreBundles
<1>3. CASE BeginRestore \/ RestoreFails \/ DropOld \/ Rename \/ InsertMany
  <2>1. UNCHANGED restorerButPc /\ pc \in Restoring /\ pc' \in Restoring \cup Started
    BY <1>3 DEF BeginRestore, RestoreFails, DropOld, Rename, InsertMany, NextCollection, Kept, Goto,
       Restoring, Started
  <2>2. QED
    BY <2>1, BundleKept DEF restorerButPc, storeVars
<1>4. CASE Save
  <2>1. /\ UNCHANGED <<chainVars, documents, files, wrong, unreached, copyVars, scanVars, visitVars>>
        /\ entities \subseteq entities' /\ pc \in Started /\ pc' \in Started
    BY <1>4 DEF Save, BeginSave, ReadCollection, StoreAsset, StoreEvent, BackupFails, NextCollection,
       restorerButPc, saveUnchanged, storeVars, Goto, Started, Saving
  <2>2. QED
    BY <2>1, BundleKept
<1>5. CASE \E c \in Names : Write(c)
  BY <1>1, <1>5 DEF Write
<1>6. QED
  BY <1>1, <1>2, <1>3, <1>4, <1>5, BundlesEnd, BundleStart DEF Next, RestoreCollections, vars

LEMMA BundleInit == Init => Composed /\ BundleInv
<1> SUFFICES ASSUME Init PROVE Composed /\ BundleInv
  OBVIOUS
<1>1. Composed
  BY NoElements DEF Init, RestorerInit, Composed
<1>2. HalfPart
  BY DEF Init, RestorerInit, HalfPart
<1>3. FoundPart
  BY DEF Init, RestorerInit, FoundPart, Visiting, Restoring, Started, Saving
<1>4. QED
  BY <1>1, <1>2, <1>3 DEF BundleInv

-----------------------------------------------------------------------------
(* Backups *)

LEMMA EventsOfBackups ==
  ASSUME NEW m \in Nat, NEW n \in Nat
  PROVE  /\ EventOf(n) \in EntitiesUpTo(m) => n \in 1..m
         /\ AssetOf(m) # EventOf(n)
         /\ EventOf(m) = EventOf(n) => m = n
BY DEF EntitiesUpTo, EventOf, AssetOf

LEMMA RecordedTypes ==
  ASSUME TypeInv
  PROVE  Recorded \subseteq EntitiesUpTo(made)
BY DEF TypeInv, StorePart, VisitPart, ChainPart, Recorded

\* Bundling moves entities about and makes none.
LEMMA RecordedBundling ==
  ASSUME TypeInv, RestoreBundles \/ Surroundings
  PROVE  Recorded' \subseteq Recorded
<1> USE AtHand DEF chainVars, storeVars, visitVars, TypeInv
<1>1. CASE UNCHANGED <<entities, content>> /\ entries' \subseteq entries
  BY <1>1 DEF Recorded
<1>2. ASSUME NEW b \in Bundles, StoreNewBundle(b) PROVE Recorded' \subseteq Recorded
  <2>1. /\ UNCHANGED <<entities, entries>>
        /\ \A c \in Bundles : content'[c] \subseteq content[c] \cup entities
    BY <1>2 DEF StoreNewBundle, Unbundled, ChainPart
  <2>2. QED
    BY <2>1 DEF Recorded
<1>3. CASE DownloadBundle
  <2>1. bundle \in Bundles
    BY <1>3 DEF DownloadBundle, VisitPart, Visiting
  <2>2. QED
    BY <1>3, <2>1 DEF DownloadBundle, Recorded
<1>4. CASE ParseEntry
  <2>1. entities' \cup entries' \subseteq entities \cup entries /\ UNCHANGED content
    BY <1>4 DEF ParseEntry, EndOfBundle
  <2>2. QED
    BY <2>1 DEF Recorded
<1>5. CASE RestoreBundles
  BY <1>1, <1>3, <1>4, <1>5 DEF RestoreBundles, Load, GetHermesBundles, Scan, SaveBlock, InsertOne,
     SaveFails, Compare, NextBundle, ChooseDonor, CreateBundleMetadata, Delete, IsBundleStored,
     StoreBundle, DonorDoesNotAnswer, EntryIsRefused, AttemptFails, EndOfBundle, TryNextDonor
<1>6. CASE Surroundings
  BY <1>1, <1>2, <1>6 DEF Surroundings, UploadBundle, Shelter
<1>7. QED
  BY <1>5, <1>6

LEMMA BackupInvKept ==
  ASSUME TypeInv, BackupInv, UNCHANGED <<data, made, read>>, Recorded' \subseteq Recorded,
         pc \notin Saving, pc' \notin Saving
  PROVE  BackupInv'
BY DEF BackupInv, Saving

LEMMA BackupSave ==
  ASSUME TypeInv, BackupInv, Save
  PROVE  BackupInv'
<1> USE BackupAssumption, CollectionNames DEF Goto
<1> USE DEF restorerButPc, saveUnchanged, backupVars, workVars, collectionVars, storeVars, chainVars,
            visitVars, ghostVars
<1>1. made \in Nat /\ Recorded \subseteq EntitiesUpTo(made)
  BY RecordedTypes DEF TypeInv, BackupPart
<1>2. CASE BeginSave
  <2>1. Recorded' = Recorded
    BY <1>2 DEF BeginSave, Recorded
  <2>2. at = 1 /\ read = NoDocs /\ \A c \in Names : NoDocs[c] = {}
    BY <1>2 DEF BeginSave, TypeInv, BackupPart, BackupInv, Loop, Saving, NoDocs
  <2>3. QED
    BY <1>2, <2>1, <2>2 DEF BeginSave, BackupInv, Saving
<1>3. CASE ReadCollection
  <2>1. Recorded' = Recorded
    BY <1>3 DEF ReadCollection, Recorded
  <2>2. UNCHANGED <<data, made, cols>> /\ pc = "readCollection" /\ at \in 1..Len(Collections)
        /\ read \in [Names -> SUBSET Docs] /\ cols \in [Names -> SUBSET Docs]
    BY <1>3 DEF ReadCollection, TypeInv, BackupPart, CollectionPart
  <2>3. CASE cols[Collections[at]] = {} /\ Collections[at] \in Required
    BY <1>3, <2>1, <2>2, <2>3 DEF ReadCollection, BackupInv, Saving
  <2>4. CASE ~(cols[Collections[at]] = {} /\ Collections[at] \in Required)
    <3>1. read' = [read EXCEPT ![Collections[at]] = cols[Collections[at]]]
      BY <1>3, <2>4 DEF ReadCollection
    <3>2. \A c \in Names : read'[c] = IF c = Collections[at] THEN cols[c] ELSE read[c]
      BY <2>2, <3>1
    <3>3. \A c \in Names : read'[c] \subseteq cols'[c]
      BY <2>2, <3>2 DEF BackupInv, Saving
    <3>4. \A i \in 1..at : Collections[i] \in Required => read'[Collections[i]] # {}
      <4>1. TAKE i \in 1..at
      <4>2. i \in 1..Len(Collections) /\ (i = at \/ i \in 1..(at - 1))
        BY <2>2
      <4>3. QED
        BY <2>2, <2>4, <3>2, <4>2 DEF BackupInv
    <3>5. CASE at < Len(Collections)
      <4>1. at' = at + 1 /\ pc' = "readCollection"
        BY <1>3, <2>4, <3>5 DEF ReadCollection, NextCollection
      <4>2. (at + 1) - 1 = at
        BY <2>2
      <4>3. QED
        BY <2>1, <2>2, <3>3, <3>4, <4>1, <4>2 DEF BackupInv, Saving
    <3>6. CASE at = Len(Collections)
      <4>1. pc' = "storeAsset"
        BY <1>3, <2>4, <3>6 DEF ReadCollection, NextCollection
      <4>2. \A c \in Required : \E i \in 1..at : c = Collections[i]
        BY <3>6, ElementsAre DEF Names
      <4>3. \A c \in Required : read'[c] # {}
        BY <3>4, <4>2
      <4>4. QED
        BY <2>1, <2>2, <3>3, <4>1, <4>3 DEF BackupInv, Saving
    <3>7. QED
      BY <2>2, <3>5, <3>6
  <2>5. QED
    BY <2>3, <2>4
<1>4. CASE StoreAsset
  <2>1. /\ made' = made + 1 /\ entities' = entities \cup {AssetOf(made + 1)}
        /\ UNCHANGED <<data, read, cols, entries, content>> /\ pc = "storeAsset" /\ pc' = "storeEvent"
    BY <1>4 DEF StoreAsset
  <2>2. Recorded' = Recorded \cup {AssetOf(made + 1)}
    BY <2>1 DEF Recorded
  <2>3. \A n \in 1..(made + 1) : EventOf(n) \in Recorded' => n \in 1..made /\ EventOf(n) \in Recorded
    BY <1>1, <2>2, EventsOfBackups
  <2>4. QED
    BY <2>1, <2>3 DEF BackupInv, Saving
<1>5. CASE StoreEvent
  <2>1. /\ entities' = entities \cup {EventOf(made)} /\ data' = [data EXCEPT ![made] = [key |-> key, docs |-> read]]
        /\ UNCHANGED <<made, entries, content>> /\ pc = "storeEvent" /\ pc' = "running" /\ read' = NoDocs
    BY <1>5 DEF StoreEvent
  <2>2. Recorded' = Recorded \cup {EventOf(made)}
    BY <2>1 DEF Recorded
  <2>3. made \in 1..MaxBackups /\ \A n \in 1..made : n \in 1..MaxBackups
    BY <2>1 DEF TypeInv, BackupPart
  <2>4. \A n \in 1..made : data'[n].docs = IF n = made THEN read ELSE data[n].docs
    BY <2>1, <2>3 DEF TypeInv, BackupPart
  <2>5. \A n \in 1..made : n # made /\ EventOf(n) \in Recorded' => EventOf(n) \in Recorded
    BY <1>1, <2>2, EventsOfBackups
  <2>6. \A n \in 1..made : EventOf(n) \in Recorded' => \A c \in Required : data'[n].docs[c] # {}
    BY <2>1, <2>4, <2>5 DEF BackupInv
  <2>7. QED
    BY <2>1, <2>6 DEF BackupInv, Saving
<1>6. CASE BackupFails
  <2>1. Recorded' = Recorded
    BY <1>6 DEF BackupFails, Recorded
  <2>2. QED
    BY <1>6, <2>1 DEF BackupFails, BackupInv, Saving
<1>7. QED
  BY <1>2, <1>3, <1>4, <1>5, <1>6 DEF Save

LEMMA BackupStep ==
  ASSUME TypeInv, BackupInv, [Next]_vars
  PROVE  BackupInv'
<1> USE DEF Goto, chainVars, storeVars, visitVars, backupVars, ghostVars, collectionVars
<1>1. CASE Bundling
  <2>1. (pc \notin Saving /\ pc' \notin Saving) \/ UNCHANGED <<pc, at, cols>>
    BY <1>1 DEF Bundling, RestoreBundles, Load, GetHermesBundles, Scan, SaveBlock, InsertOne,
       SaveFails, Compare, NextBundle, ChooseDonor, CreateBundleMetadata, DownloadBundle, Delete, IsBundleStored,
       StoreBundle, ParseEntry, DonorDoesNotAnswer, EntryIsRefused, AttemptFails, EndOfBundle, TryNextDonor, Saving, Visiting,
       Surroundings, StoreNewBundle, UploadBundle, Shelter, workVars
  <2>2. Recorded' \subseteq Recorded
    BY <1>1, RecordedBundling DEF Bundling
  <2>3. UNCHANGED <<data, made, read>>
    BY <1>1 DEF Bundling, workVars
  <2>4. QED
    BY <2>1, <2>2, <2>3, BackupInvKept DEF BackupInv
<1>2. CASE RestoreCollections
  <2>1. /\ pc \notin Saving /\ pc' \notin Saving
        /\ UNCHANGED <<entities, entries, content, data, made, read>>
    BY <1>2 DEF RestoreCollections, EndOfBundles, BeginRestore, RestoreFails, DropOld, Rename,
       InsertMany, NextCollection, Kept, restorerButPc, Saving
  <2>2. Recorded' = Recorded
    BY <2>1 DEF Recorded
  <2>3. QED
    BY <2>1, <2>2, BackupInvKept
<1>3. ASSUME NEW c \in Names, Write(c) PROVE BackupInv'
  <2>1. UNCHANGED <<pc, at, read, data, made, entities, entries, content>> /\ \A n \in Names : cols[n] \subseteq cols'[n]
    BY <1>3 DEF Write, restorerVars, workVars, TypeInv, CollectionPart
  <2>2. Recorded' = Recorded
    BY <2>1 DEF Recorded
  <2>3. QED
    BY <2>1, <2>2 DEF BackupInv
<1>4. CASE Restart \/ LoseDatabase
  <2>1. /\ pc' = "load" /\ read' = NoDocs /\ UNCHANGED <<data, made, content>>
        /\ entities' \subseteq entities /\ entries' = {}
    BY <1>4 DEF Restart, LoseDatabase, StartAgain, EmptyDatabase
  <2>2. Recorded' \subseteq Recorded
    BY <2>1 DEF Recorded
  <2>3. QED
    BY <2>1, <2>2 DEF BackupInv, Saving
<1>5. CASE UNCHANGED vars
  <2>1. Recorded' = Recorded
    BY <1>5 DEF vars, restorerVars, Recorded
  <2>2. QED
    BY <1>5, <2>1 DEF vars, restorerVars, workVars, BackupInv
<1>6. QED
  BY <1>1, <1>2, <1>3, <1>4, <1>5, BackupSave DEF Next

LEMMA BackupInit == Init => BackupInv
  BY DEF Init, RestorerInit, BackupInv, Saving

-----------------------------------------------------------------------------
(* Collections *)

LEMMA LatestKept ==
  ASSUME UNCHANGED <<entities, made>>
  PROVE  Latest' = Latest
BY DEF Latest

\* What is back stays back while documents are only added to the collections.
LEMMA CollectionsBackKept ==
  ASSUME TypeInv, CollectionsBack, UNCHANGED <<entities, made, data, key, old, lostAt>>,
         \A c \in Names : cols[c] \subseteq cols'[c]
  PROVE  CollectionsBack'
BY LatestKept, BackupAssumption DEF CollectionsBack

\* A started node has restored what it can, or is done with it.
LEMMA FoundIsSettled ==
  /\ TypeInv /\ BundleInv /\ pc \in Restoring \cup Started => Settled
  /\ TypeInv' /\ BundleInv' /\ pc' \in Restoring \cup Started => Settled'
<1> USE DEF TypeInv, BundleInv, Settled, FoundPart, Recovered, StorePart, ScanPart, VisitPart,
            Visiting, Scanning, Restoring, Started, Saving
<1>1. ASSUME TypeInv, BundleInv, pc \in Restoring \cup Started PROVE Settled
  <2>1. bundle = NoBundle /\ pc \notin Scanning /\ ToSet(anchored) \subseteq Recovered
    BY <1>1
  <2>2. missing = {}
    BY <1>1
  <2>3. QED
    BY <1>1, <2>1, <2>2
<1>2. ASSUME TypeInv', BundleInv', pc' \in Restoring \cup Started PROVE Settled'
  <2>1. bundle' = NoBundle /\ pc' \notin Scanning /\ ToSet(anchored') \subseteq Recovered'
    BY <1>2
  <2>2. missing' = {}
    BY <1>2
  <2>3. QED
    BY <1>2, <2>1, <2>2
<1>3. QED
  BY <1>1, <1>2

LEMMA SettledRestorer ==
  ASSUME TypeInv, Settled, RestoreBundles
  PROVE  Settled' /\ UNCHANGED entities
<1> USE AtHand DEF Settled, Goto
<1> USE DEF chainVars, storeVars, copyVars, scanVars, visitVars
<1>1. CASE Load \/ GetHermesBundles \/ Scan \/ SaveBlock \/ InsertOne \/ SaveFails
  BY <1>1 DEF Load, GetHermesBundles, Scan, SaveBlock, InsertOne, SaveFails, Scanning
<1>2. CASE Compare
  BY <1>2 DEF Compare, Scanning
<1>3. CASE NextBundle
  BY <1>3 DEF NextBundle, Scanning, TypeInv, VisitPart
<1>4. CASE ChooseDonor
  BY <1>4 DEF ChooseDonor, EndOfBundle, Scanning
<1>5. CASE CreateBundleMetadata \/ DownloadBundle \/ Delete
  BY <1>5 DEF CreateBundleMetadata, DownloadBundle, Delete, Scanning
<1>6. CASE IsBundleStored
  BY <1>6 DEF IsBundleStored, EndOfBundle, Scanning, TypeInv, VisitPart, Visiting
<1>7. CASE StoreBundle \/ ParseEntry \/ EntryIsRefused
  BY <1>7 DEF StoreBundle, ParseEntry, EntryIsRefused
<1>8. CASE DonorDoesNotAnswer \/ AttemptFails
  BY <1>8 DEF DonorDoesNotAnswer, AttemptFails, TryNextDonor, Visiting, Scanning
<1>9. QED
  BY <1>1, <1>2, <1>3, <1>4, <1>5, <1>6, <1>7, <1>8 DEF RestoreBundles

LEMMA SettledSurroundings ==
  ASSUME TypeInv, Settled, Surroundings
  PROVE  Settled'
<1> USE AtHand DEF Settled
<1> USE DEF scanVars, visitVars, storeVars
<1>1. ASSUME NEW b \in Bundles, StoreNewBundle(b) PROVE Settled'
  BY <1>1 DEF StoreNewBundle
<1>2. ASSUME NEW b \in Bundles, UploadBundle(b) PROVE Settled'
  <2>1. CASE anchored' = anchored
    BY <1>2, <2>1 DEF UploadBundle
  <2>2. CASE anchored' = Append(anchored, b) /\ b \in files
    <3>1. ToSet(anchored') = ToSet(anchored) \cup {b}
      BY <2>2, AppendElements DEF TypeInv, ChainPart
    <3>2. QED
      BY <1>2, <2>2, <3>1 DEF UploadBundle
  <2>3. QED
    BY <1>2, <2>1, <2>2 DEF UploadBundle
<1>3. ASSUME NEW b \in Bundles, NEW d \in Donors, Shelter(b, d) PROVE Settled'
  <2>1. \A c \in Bundles \ {b} : shelterers'[c] = shelterers[c]
    BY <1>3 DEF Shelter, TypeInv, ChainPart
  <2>2. QED
    BY <1>3, <2>1 DEF Shelter
<1>4. QED
  BY <1>1, <1>2, <1>3 DEF Surroundings

LEMMA CollectionBundling ==
  ASSUME TypeInv, Composed, BundleInv, CollectionInv, RestoreBundles \/ Surroundings,
         UNCHANGED <<collectionVars, backupVars, workVars, ghostVars>>
  PROVE  CollectionInv'
<1> USE AtHand DEF collectionVars, backupVars, workVars, ghostVars
<1>1. CASE RestoreBundles
  <2>1. pc \in Scanning \cup Visiting /\ pc' \in Scanning \cup Visiting
    BY <1>1 DEF RestoreBundles, Load, GetHermesBundles, Scan, SaveBlock, InsertOne, SaveFails, Compare,
         NextBundle, ChooseDonor, CreateBundleMetadata, DownloadBundle, Delete, IsBundleStored,
         StoreBundle, ParseEntry, DonorDoesNotAnswer, EntryIsRefused, AttemptFails, EndOfBundle, TryNextDonor, Goto,
         Scanning, Visiting
  <2>2. ASSUME Settled, CollectionsBack PROVE Settled' /\ CollectionsBack'
    <3>1. Settled' /\ UNCHANGED entities
      BY <1>1, <2>2, SettledRestorer
    <3>2. QED
      BY <2>2, <3>1, CollectionsBackKept
  <2>3. QED
    BY <2>1, <2>2 DEF CollectionInv, FreshCols, Loop, Started, Saving, Scanning, Visiting
<1>2. CASE Surroundings
  <2>1. UNCHANGED <<entities, pc>>
    BY <1>2 DEF Surroundings, StoreNewBundle, UploadBundle, Shelter, storeVars
  <2>3. Settled => Settled'
    BY <1>2, SettledSurroundings
  <2>4. CollectionsBack => CollectionsBack'
    BY <2>1, CollectionsBackKept
  <2>5. LoopInv => LoopInv'
    BY <2>1, LatestKept DEF LoopInv
  <2>6. QED
    BY <2>1, <2>3, <2>4, <2>5 DEF CollectionInv, FreshCols
<1>3. QED
  BY <1>1, <1>2

\* Collections are restored only when they are fresh, and required ones that are not
\* empty have been filled since the loss.
LEMMA CollectionBegin ==
  ASSUME TypeInv, BundleInv, BackupInv, CollectionInv, TypeInv', BundleInv', BeginRestore
  PROVE  CollectionInv'
<1> USE AtHand, CollectionNames, BackupAssumption DEF BeginRestore, Kept, Goto
<1> USE DEF restorerButPc, ghostVars, collectionVars, backupVars, visitVars, storeVars, chainVars
<1>1. made \in Nat /\ at = 1
  BY DEF TypeInv, BackupPart, Loop
<1>2. Latest' = Latest /\ Latest \in 0..made /\ (Latest # 0 => EventOf(Latest) \in entities)
  BY <1>1, LatestKept, LatestIs
<1>3. Latest # 0 => \A c \in Required : data[Latest].docs[c] # {}
  BY <1>1, <1>2 DEF BackupInv, Recorded
<1>4. pc \notin Loop /\ pc \notin Started
  BY DEF Loop, Started, Saving
<1>5. IsRestoreRequired => old = NoDocs
  BY <1>4 DEF CollectionInv, IsRestoreRequired
<1>6. ASSUME IsRestoreRequired, Latest # 0, data[Latest].key = key PROVE FreshCols
  <2>1. PICK c \in Required : cols[c] = {}
    BY <1>6 DEF IsRestoreRequired
  <2>2. old[c] = {}
    BY <1>5, <1>6 DEF NoDocs
  <2>3. ~ CollectionsBack
    BY <1>3, <1>6, <2>1, <2>2 DEF CollectionsBack
  <2>4. QED
    BY <1>4, <2>3 DEF CollectionInv
<1>7. CASE IsRestoreRequired /\ Latest # 0 /\ data[Latest].key = key
  <2>1. backup' = Latest /\ pc' = "dropOld"
    BY <1>7
  <2>2. FreshCols
    BY <1>6, <1>7
  <2>3. LoopInv'
    BY <1>1, <1>2, <1>7, <2>1, <2>2 DEF LoopInv, FreshCols, NoDocs
  <2>4. QED
    BY <2>1, <2>3 DEF CollectionInv, Loop, Started, Saving
<1>8. CASE ~(IsRestoreRequired /\ Latest # 0 /\ data[Latest].key = key)
  <2>1. pc' = "running"
    BY <1>8
  <2>2. CollectionsBack
    <3>1. SUFFICES ASSUME Latest # 0, data[Latest].key = key, ~ IsRestoreRequired PROVE CollectionsBack
      BY <1>8 DEF CollectionsBack
    <3>2. \A c \in Required : \E d \in cols[c] : TRUE
      BY <3>1 DEF IsRestoreRequired
    <3>3. CASE FreshCols
      BY <3>2, <3>3 DEF FreshCols, CollectionsBack
    <3>4. QED
      BY <1>4, <3>3 DEF CollectionInv
  <2>3. CollectionsBack'
    BY <2>2, CollectionsBackKept
  <2>4. Settled'
    BY <2>1, FoundIsSettled DEF Started
  <2>5. QED
    BY <1>4, <2>1, <2>3, <2>4 DEF CollectionInv, Loop, Started, Saving
<1>9. QED
  BY <1>7, <1>8

LEMMA CollectionIndex ==
  /\ \A i, j \in 1..Len(Collections) : Collections[i] = Collections[j] => i = j
  /\ \A c \in Names : \E i \in 1..Len(Collections) : c = Collections[i]
<1>1. Collections \in Seq(Names) /\ IsInjective(Collections)
  BY BackupAssumption
<1>2. DOMAIN Collections = 1..Len(Collections)
  BY <1>1
<1>3. \A i, j \in DOMAIN Collections : Collections[i] = Collections[j] => i = j
  BY <1>1 DEF IsInjective
<1>4. QED
  BY <1>1, <1>2, <1>3, ElementsAre, SMTT(30) DEF Names

LEMMA CollectionLoop ==
  ASSUME TypeInv, BundleInv, BackupInv, CollectionInv, TypeInv', BundleInv', troubles = 0, troubles' = 0,
         DropOld \/ Rename \/ InsertMany
  PROVE  CollectionInv'
<1> USE DEF Goto
<1> USE DEF restorerButPc, ghostVars, collectionVars, backupVars, visitVars, storeVars, chainVars
<1> DEFINE c == Collections[at]
<1>1. /\ LoopInv /\ at \in 1..Len(Collections) /\ c \in Names /\ backup \in 1..MaxBackups
      /\ cols \in [Names -> SUBSET Docs] /\ old \in [Names -> SUBSET Docs]
  <2>1. pc \in Loop
    BY DEF DropOld, Rename, InsertMany, Loop
  <2>2. LoopInv /\ backup \in 0..made /\ backup > 0 /\ made \in 0..MaxBackups /\ at \in 1..Len(Collections)
    BY <2>1 DEF CollectionInv, TypeInv, BackupPart
  <2>3. backup \in 1..MaxBackups
    BY <2>2, BackupAssumption
  <2>4. QED
    BY <2>2, <2>3, CollectionNames DEF TypeInv, CollectionPart
<1>0. /\ Len(Collections) \in Nat /\ at \in Nat /\ at <= Len(Collections) /\ at >= at
      /\ LoopInv => old[c] = {} \/ pc = "insertMany"
  BY <1>1, CollectionNames DEF LoopInv
<1>2. UNCHANGED <<entities, made, data, key, lostAt, written, entries, anchored>>
  BY DEF DropOld, Rename, InsertMany, Kept
<1>3. Latest' = Latest
  BY <1>2, LatestKept
<1>4. \A d \in (lostAt + 1)..written : \E n \in Names : d \in cols[n] \cup old[n]
  BY DEF CollectionInv
<1>5. CASE DropOld
  <2>1. old[c] = {} /\ pc = "dropOld" /\ pc' = "rename"
    BY <1>0, <1>1, <1>5 DEF DropOld
  <2>2. old' = old /\ UNCHANGED <<cols, at, backup>>
    <3>1. [old EXCEPT ![c] = {}] = old
      BY <1>1, <2>1
    <3>2. QED
      BY <1>5, <3>1 DEF DropOld
  <2>3. LoopInv'
    BY <1>1, <1>2, <1>3, <2>1, <2>2 DEF LoopInv
  <2>4. QED
    BY <1>2, <1>4, <2>1, <2>2, <2>3 DEF CollectionInv, Loop, Started, Saving
<1>6. CASE Rename
  <2>1. old[c] = {} /\ pc = "rename" /\ pc' = "insertMany"
    BY <1>0, <1>1, <1>6 DEF Rename
  <2>2. /\ old' = [old EXCEPT ![c] = cols[c]] /\ cols' = [cols EXCEPT ![c] = {}]
        /\ UNCHANGED <<at, backup>>
    BY <1>6, <2>1 DEF Rename, Trouble
  <2>3. /\ \A n \in Names : n # c => old'[n] = old[n] /\ cols'[n] = cols[n]
        /\ old'[c] = cols[c] /\ cols'[c] = {}
    BY <1>1, <2>2
  <2>4. LoopInv'
    <3>1. \A i \in 1..Len(Collections) : i # at => Collections[i] \in Names /\ Collections[i] # c
      BY <1>1, CollectionNames, CollectionIndex
    <3>2. \A i \in 1..Len(Collections) : i < at => data[backup].docs[Collections[i]] \subseteq cols'[Collections[i]]
      <4>1. \A i \in 1..Len(Collections) : i < at => i # at
        BY <1>0
      <4>2. QED
        BY <1>1, <2>3, <3>1, <4>1 DEF LoopInv
    <3>3. \A i \in 1..Len(Collections) : i >= at => \A d \in cols'[Collections[i]] : d > lostAt
      BY <1>1, <2>3, <3>1 DEF LoopInv
    <3>4. \A i \in 1..Len(Collections) : i >= at => old'[Collections[i]] = {} \/ i = at
      BY <1>1, <2>1, <2>3, <3>1 DEF LoopInv
    <3>5. QED
      BY <1>1, <1>2, <1>3, <2>1, <2>2, <3>2, <3>3, <3>4 DEF LoopInv
  <2>5. \A d \in (lostAt + 1)..written : \E n \in Names : d \in cols'[n] \cup old'[n]
    BY <1>1, <1>4, <2>1, <2>3
  <2>6. QED
    BY <1>2, <2>1, <2>4, <2>5 DEF CollectionInv, Loop, Started, Saving
<1>7. CASE InsertMany
  <2>1. cols' = [cols EXCEPT ![c] = cols[c] \cup data[backup].docs[c]] /\ old' = old
    BY <1>7 DEF InsertMany, Trouble
  <2>2. \A n \in Names : cols'[n] = IF n = c THEN cols[c] \cup data[backup].docs[c] ELSE cols[n]
    BY <1>1, <2>1
  <2>3. \A i \in 1..Len(Collections) : i <= at => data[backup].docs[Collections[i]] \subseteq cols'[Collections[i]]
    <3>1. \A i \in 1..Len(Collections) : i <= at => i = at \/ i < at
      BY <1>0
    <3>2. \A i \in 1..Len(Collections) : i < at =>
            data[backup].docs[Collections[i]] \subseteq cols'[Collections[i]]
      BY <1>1, <2>2, CollectionNames DEF LoopInv
    <3>3. data[backup].docs[c] \subseteq cols'[c]
      BY <1>1, <2>2
    <3>4. QED
      BY <3>1, <3>2, <3>3
  <2>4. \A d \in (lostAt + 1)..written : \E n \in Names : d \in cols'[n] \cup old'[n]
    BY <1>1, <1>4, <2>1, <2>2
  <2>5. pc = "insertMany"
    BY <1>7 DEF InsertMany
  <2>6. CASE at < Len(Collections)
    <3>1. at' = at + 1 /\ pc' = "dropOld" /\ backup' = backup
      BY <1>7, <2>6 DEF InsertMany, NextCollection
    <3>2. \A i \in 1..Len(Collections) :
            (i < at + 1 => i <= at) /\ (i >= at + 1 => i >= at /\ i # at /\ Collections[i] # c)
      BY <1>0, <1>1, CollectionIndex
    <3>3. \A i \in 1..Len(Collections) : i >= at + 1 =>
            cols'[Collections[i]] = cols[Collections[i]] /\ old'[Collections[i]] = {}
      BY <1>1, <2>1, <2>2, <3>2, CollectionNames DEF LoopInv
    <3>4. LoopInv'
      BY <1>1, <1>2, <1>3, <2>3, <3>1, <3>2, <3>3 DEF LoopInv
    <3>5. QED
      BY <2>4, <3>1, <3>4, <1>2 DEF CollectionInv, Loop, Started, Saving
  <2>7. CASE at = Len(Collections)
    <3>1. pc' = "running"
      BY <1>7, <2>7 DEF InsertMany, NextCollection
    <3>2. \A n \in Names : data[backup].docs[n] \subseteq cols'[n]
      BY <1>0, <2>3, <2>7, CollectionIndex
    <3>3. backup = Latest /\ backup # 0 /\ backup \in 0..made
      BY <1>1 DEF LoopInv, TypeInv, BackupPart
    <3>4. CollectionsBack'
      BY <1>2, <1>3, <3>2, <3>3 DEF CollectionsBack
    <3>5. \A n \in Required : cols'[n] # {}
      <4>1. EventOf(backup) \in Recorded /\ backup \in 1..made
        BY <3>3, LatestIs DEF Recorded, TypeInv, BackupPart
      <4>2. \A n \in Required : data[backup].docs[n] # {}
        BY <4>1 DEF BackupInv
      <4>3. QED
        BY <3>2, <4>2, BackupAssumption
    <3>6. Settled'
      BY <3>1, FoundIsSettled DEF Started
    <3>7. QED
      BY <1>2, <2>4, <3>1, <3>4, <3>5, <3>6 DEF CollectionInv, Loop, Started, Saving
  <2>8. QED
    BY <1>0, <2>6, <2>7
<1>8. QED
  BY <1>5, <1>6, <1>7

LEMMA CollectionRestore ==
  ASSUME TypeInv, BundleInv, BackupInv, CollectionInv, TypeInv', BundleInv', troubles = 0, troubles' = 0,
         RestoreCollections
  PROVE  CollectionInv'
<1>1. CASE EndOfBundles
  <2>1. /\ pc \notin Loop \cup Started /\ pc' = "restoreRequired"
        /\ UNCHANGED <<entities, made, data, key, old, cols, lostAt, written, anchored, entries>>
    BY <1>1 DEF EndOfBundles, Kept, Goto, restorerButPc, chainVars, storeVars, visitVars, backupVars, ghostVars,
       collectionVars, Loop, Started, Saving
  <2>2. CollectionsBack => CollectionsBack'
    BY <2>1, CollectionsBackKept
  <2>3. Settled'
    BY <2>1, FoundIsSettled DEF Restoring
  <2>4. QED
    BY <2>1, <2>2, <2>3 DEF CollectionInv, FreshCols, Loop, Started, Saving
<1>2. CASE RestoreFails
  BY <1>2 DEF RestoreFails, Trouble
<1>3. QED
  BY <1>1, <1>2, CollectionBegin, CollectionLoop DEF RestoreCollections

LEMMA CollectionSave ==
  ASSUME TypeInv, BundleInv, BackupInv, CollectionInv, TypeInv', BundleInv', Save
  PROVE  CollectionInv'
<1> USE BackupAssumption DEF Goto
<1> USE DEF restorerButPc, ghostVars, collectionVars, backupVars, visitVars, storeVars, chainVars, workVars, saveUnchanged
<1>1. pc \in Started /\ pc' \in Started
  BY DEF Save, BeginSave, ReadCollection, StoreAsset, StoreEvent, BackupFails, NextCollection, Started, Saving
<1>2. entries = {} /\ made \in 0..MaxBackups
  BY <1>1 DEF TypeInv, VisitPart, BackupPart, Started, Saving, HasEntries
<1>3. UNCHANGED <<key, old, cols, lostAt, written, anchored, entries>>
  BY DEF Save, BeginSave, ReadCollection, StoreAsset, StoreEvent, BackupFails
<1>4. CollectionsBack
  BY <1>1 DEF CollectionInv
<1>5. CollectionsBack'
  <2>1. CASE UNCHANGED <<entities, made, data>>
    BY <1>3, <1>4, <2>1, CollectionsBackKept
  <2>2. CASE StoreAsset
    <3>1. /\ made' = made + 1 /\ data' = data
          /\ entities' = entities \cup {AssetOf(made + 1)} /\ entities \subseteq EntitiesUpTo(made)
      BY <2>2 DEF StoreAsset, TypeInv, StorePart
    <3>2. {n \in 1..made' : EventOf(n) \in entities'} = {n \in 1..made : EventOf(n) \in entities}
      BY <1>2, <3>1, EventsOfBackups
    <3>3. Latest' = Latest
      BY <3>2 DEF Latest
    <3>4. QED
      BY <1>3, <1>4, <3>1, <3>3 DEF CollectionsBack
  <2>3. CASE StoreEvent
    <3>1. /\ made' = made /\ data' = [data EXCEPT ![made] = [key |-> key, docs |-> read]]
          /\ entities' = entities \cup {EventOf(made)} /\ pc = "storeEvent"
      BY <2>3 DEF StoreEvent
    <3>2. made \in 1..MaxBackups
      BY <1>2, <3>1 DEF TypeInv, BackupPart
    <3>3. Latest' = made
      <4> DEFINE S == {n \in 1..made : EventOf(n) \in entities'}
      <4>1. made \in S /\ S # {} /\ S \in SUBSET (1..made)
        BY <1>2, <3>1, <3>2
      <4> HIDE DEF S
      <4>2. Max(S) \in S /\ \A y \in S : Max(S) >= y
        <5>1. made \in Nat
          BY <1>2
        <5>2. QED
          BY <4>1, <5>1, MaxIs
      <4>3. Max(S) = made
        <5>1. made \in Nat
          BY <1>2
        <5>2. Max(S) >= made
          BY <4>1, <4>2
        <5>3. Max(S) \in 1..made
          BY <4>1, <4>2
        <5>4. QED
          BY <5>1, <5>2, <5>3
      <4>4. QED
        BY <3>1, <4>1, <4>3 DEF Latest, S
    <3>4. data'[made].docs = read
      BY <3>1, <3>2 DEF TypeInv, BackupPart
    <3>5. \A c \in Names : read[c] \subseteq cols[c]
      BY <3>1 DEF BackupInv, Saving
    <3>6. QED
      BY <1>3, <3>3, <3>4, <3>5 DEF CollectionsBack
  <2>4. QED
    BY <2>1, <2>2, <2>3 DEF Save, BeginSave, ReadCollection, BackupFails
<1>6. Settled'
  BY <1>1, FoundIsSettled
<1>7. pc \notin Loop /\ pc' \notin Loop
  BY <1>1 DEF Started, Saving, Loop
<1>8. QED
  BY <1>1, <1>2, <1>3, <1>5, <1>6, <1>7 DEF CollectionInv

LEMMA CollectionWrite ==
  ASSUME TypeInv, CollectionInv, NEW c \in Names, Write(c)
  PROVE  CollectionInv'
<1> USE CollectionNames, BackupAssumption DEF ghostVars, collectionVars, backupVars, workVars, restorerVars, chainVars, storeVars, scanVars, visitVars
<1>1. /\ UNCHANGED <<entities, made, data, key, old, lostAt, pc, backup, at>>
      /\ UNCHANGED <<anchored, shelterers, files, documents, missing, stored, bundle>>
      /\ written' = written + 1
  BY DEF Write
<1>2. /\ \A n \in Names : cols[n] \subseteq cols'[n] /\ cols'[n] \subseteq cols[n] \cup {written'}
      /\ written' \in cols'[c]
  BY <1>1 DEF Write, TypeInv, CollectionPart
<1>3. written \in Nat /\ lostAt \in Nat /\ written' > lostAt /\ \A d \in (lostAt + 1)..written' : d = written' \/ d \in (lostAt + 1)..written
  BY <1>1 DEF TypeInv, CollectionPart
<1>4. Settled' = Settled
  BY <1>1 DEF Settled
<1>5. CollectionsBack => CollectionsBack'
  BY <1>1, <1>2, CollectionsBackKept
<1>6. FreshCols => FreshCols'
  BY <1>1, <1>2, <1>3 DEF FreshCols
<1>7. LoopInv => LoopInv'
  BY <1>1, <1>2, <1>3, LatestKept DEF LoopInv
<1>8. \A d \in (lostAt + 1)..written' : \E n \in Names : d \in cols'[n] \cup old[n]
  <2>1. TAKE d \in (lostAt + 1)..written'
  <2>2. CASE d = written'
    BY <1>2, <2>2
  <2>3. CASE d \in (lostAt + 1)..written
    BY <1>2, <2>3 DEF CollectionInv
  <2>4. QED
    BY <1>3, <2>2, <2>3
<1>9. (old = NoDocs \/ \A n \in Required : cols[n] # {}) => (old = NoDocs \/ \A n \in Required : cols'[n] # {})
  BY <1>2
<1>10. QED
  BY <1>1, <1>4, <1>5, <1>6, <1>7, <1>8, <1>9 DEF CollectionInv

LEMMA CollectionStart ==
  ASSUME TypeInv, BundleInv, CollectionInv, troubles = 0, troubles' = 0, Restart \/ LoseDatabase
  PROVE  CollectionInv'
<1> USE DEF ghostVars, collectionVars, backupVars, storeVars, chainVars, StartAgain, Goto
<1>1. CASE Restart
  <2>1. pc \in Started /\ pc' = "load"
    BY <1>1 DEF Restart, Trouble
  <2>2. /\ UNCHANGED <<entities, made, data, key, cols, old, lostAt, written>>
        /\ UNCHANGED <<anchored, shelterers, files, documents>> /\ bundle' = NoBundle /\ missing' = {}
    BY <1>1 DEF Restart
  <2>4. CollectionsBack'
    BY <2>1, <2>2, CollectionsBackKept DEF CollectionInv
  <2>5. Settled'
    <3>1. Settled
      BY <2>1, FoundIsSettled
    <3>2. QED
      BY <2>1, <2>2, <3>1 DEF Settled
  <2>6. pc \notin Loop
    BY <2>1 DEF Started, Saving, Loop
  <2>7. QED
    BY <2>1, <2>2, <2>4, <2>5, <2>6 DEF CollectionInv, Loop, Started, Saving
<1>2. CASE LoseDatabase
  <2>1. /\ cols' = NoDocs /\ old' = NoDocs /\ lostAt' = written /\ written' = written /\ pc' = "load"
    BY <1>2 DEF LoseDatabase
  <2>2. FreshCols'
    BY <2>1 DEF FreshCols, NoDocs
  <2>3. (lostAt' + 1)..written' = {}
    BY <2>1, BackupAssumption DEF TypeInv, CollectionPart
  <2>4. QED
    BY <2>1, <2>2, <2>3 DEF CollectionInv, Loop, Started, Saving
<1>3. QED
  BY <1>1, <1>2

LEMMA CollectionStep ==
  ASSUME TypeInv, Composed, BundleInv, TypeInv', BundleInv', BackupInv, CollectionInv,
         troubles = 0, troubles' = 0,
         [Next]_vars
  PROVE  CollectionInv'
<1>1. CASE Bundling
  BY <1>1, CollectionBundling DEF Bundling
<1>2. CASE UNCHANGED vars
  <2>1. Settled' = Settled /\ Latest' = Latest
    BY <1>2, LatestKept DEF Settled, vars, restorerVars, storeVars, chainVars, scanVars, visitVars, backupVars
  <2>2. QED
    BY <1>2, <2>1 DEF vars, restorerVars, chainVars, storeVars, visitVars, collectionVars, backupVars,
       workVars, ghostVars, CollectionInv, CollectionsBack, FreshCols, LoopInv
<1>3. QED
  BY <1>1, <1>2, CollectionRestore, CollectionSave, CollectionWrite, CollectionStart DEF Next

LEMMA CollectionInit == Init => CollectionInv
<1> SUFFICES ASSUME Init PROVE CollectionInv
  OBVIOUS
<1>1. FreshCols
  BY DEF Init, FreshCols, NoDocs
<1>2. (lostAt + 1)..written = {}
  BY DEF Init
<1>3. QED
  BY <1>1, <1>2 DEF Init, RestorerInit, CollectionInv, Loop, Started, Saving

\* Old collections appear, and documents move, in the restore only.
LEMMA OnceStep ==
  ASSUME TypeInv, OnceInv, [Next]_vars
  PROVE  OnceInv'
<1> USE CollectionNames, BackupAssumption DEF Goto
<1> USE DEF ghostVars, collectionVars, workVars, restorerVars, TypeInv
<1>0. restores \in Nat /\ cols \in [Names -> SUBSET Docs] /\ old \in [Names -> SUBSET Docs]
  BY DEF CollectionPart
<1>1. ASSUME UNCHANGED <<cols, old, restores, lostAt, written>>,
             pc' \notin Loop \/ UNCHANGED <<pc, at>>
      PROVE  OnceInv'
  BY <1>1 DEF OnceInv
<1>2. CASE Bundling
  <2>1. pc' \in Scanning \cup Visiting \/ UNCHANGED pc
    BY <1>2 DEF Bundling, RestoreBundles, Load, GetHermesBundles, Scan, SaveBlock, InsertOne, SaveFails,
       Compare, NextBundle, ChooseDonor, CreateBundleMetadata, DownloadBundle, Delete, IsBundleStored,
       StoreBundle, ParseEntry, DonorDoesNotAnswer, EntryIsRefused, AttemptFails, EndOfBundle,
       TryNextDonor, Surroundings, StoreNewBundle, UploadBundle, Shelter, Scanning, Visiting
  <2>2. QED
    BY <1>1, <1>2, <2>1 DEF Bundling, Scanning, Visiting, Loop
<1>3. CASE EndOfBundles \/ RestoreFails
  BY <1>1, <1>3 DEF EndOfBundles, RestoreFails, Kept, Loop
<1>4. CASE BeginRestore
  <2>1. UNCHANGED <<cols, old, lostAt, written, at>> /\ pc = "restoreRequired" /\ at = 1
    BY <1>4 DEF BeginRestore, BackupPart, Loop
  <2>2. CASE pc' = "dropOld"
    <3>1. restores' = restores + 1
      BY <1>4, <2>2 DEF BeginRestore
    <3>2. restores' <= 1 => old = NoDocs /\ \A i \in 1..Len(Collections) : old[Collections[i]] = {}
      BY <1>0, <3>1 DEF OnceInv, NoDocs
    <3>3. QED
      BY <1>0, <2>1, <3>1, <3>2 DEF OnceInv
  <2>3. CASE pc' = "running" /\ restores' = restores
    BY <1>1, <2>1, <2>3 DEF Loop
  <2>4. QED
    BY <1>4, <2>2, <2>3 DEF BeginRestore
<1>5. CASE DropOld \/ Rename \/ InsertMany
  <2> DEFINE c == Collections[at]
  <2>1. /\ UNCHANGED <<restores, lostAt, written>> /\ restores # 0 /\ pc \in Loop
        /\ at \in 1..Len(Collections) /\ c \in Names
        /\ backup \in 1..MaxBackups /\ data[backup].docs \in [Names -> SUBSET Docs]
    <3>1. pc \in Loop /\ UNCHANGED <<restores, lostAt, written>>
      BY <1>5 DEF DropOld, Rename, InsertMany, Kept, Loop
    <3>2. backup \in 1..MaxBackups
      BY <3>1 DEF BackupPart
    <3>3. QED
      BY <3>1, <3>2 DEF OnceInv, BackupPart
  <2>2. SUFFICES ASSUME restores <= 1 PROVE OnceInv'
    BY <2>1 DEF OnceInv
  <2>3. /\ \A i \in 1..Len(Collections) : i >= at =>
               old[Collections[i]] = {} \/ (i = at /\ pc = "insertMany")
        /\ \A d \in (lostAt + 1)..written : \E n \in Names : d \in cols[n] \cup old[n]
    BY <2>1, <2>2 DEF OnceInv
  <2>4. at >= at
    BY <2>1
  <2>5. CASE DropOld
    <3>1. old[c] = {} /\ pc' = "rename" /\ pc = "dropOld"
      BY <2>1, <2>3, <2>4, <2>5 DEF DropOld
    <3>2. [old EXCEPT ![c] = {}] = old
      BY <1>0, <2>1, <3>1
    <3>3. UNCHANGED <<cols, old, at>>
      BY <2>5, <3>2 DEF DropOld
    <3>4. QED
      BY <2>1, <2>3, <3>1, <3>3 DEF OnceInv
  <2>6. CASE Rename
    <3>1. old[c] = {} /\ pc' = "insertMany" /\ pc = "rename" /\ at' = at
      BY <2>1, <2>3, <2>4, <2>6 DEF Rename
    <3>2. CASE UNCHANGED <<cols, old>>
      BY <2>1, <2>3, <3>1, <3>2 DEF OnceInv
    <3>3. CASE old' = [old EXCEPT ![c] = cols[c]] /\ cols' = [cols EXCEPT ![c] = {}]
      <4>1. /\ \A n \in Names : n # c => old'[n] = old[n] /\ cols'[n] = cols[n]
            /\ old'[c] = cols[c] /\ cols'[c] = {}
        BY <1>0, <2>1, <3>3
      <4>2. \A i \in 1..Len(Collections) : i # at => Collections[i] \in Names /\ Collections[i] # c
        BY <2>1, CollectionIndex
      <4>3. \A i \in 1..Len(Collections) : i >= at => old'[Collections[i]] = {} \/ i = at
        BY <2>3, <4>1, <4>2
      <4>4. \A d \in (lostAt + 1)..written : \E n \in Names : d \in cols'[n] \cup old'[n]
        BY <2>1, <2>3, <3>1, <4>1
      <4>5. QED
        BY <2>1, <3>1, <4>3, <4>4 DEF OnceInv
    <3>4. QED
      BY <2>6, <3>2, <3>3 DEF Rename
  <2>7. CASE InsertMany
    <3>1. old' = old /\ \A n \in Names : cols[n] \subseteq cols'[n]
      BY <1>0, <2>1, <2>7 DEF InsertMany
    <3>2. \A d \in (lostAt + 1)..written : \E n \in Names : d \in cols'[n] \cup old'[n]
      BY <2>3, <3>1
    <3>3. CASE at < Len(Collections)
      <4>1. at' = at + 1 /\ pc' = "dropOld"
        BY <2>7, <3>3 DEF InsertMany, NextCollection
      <4>2. \A i \in 1..Len(Collections) : i >= at + 1 => i >= at /\ i # at
        BY <2>1
      <4>3. QED
        BY <2>1, <2>3, <3>1, <3>2, <4>1, <4>2 DEF OnceInv
    <3>4. CASE at = Len(Collections)
      <4>1. pc' = "running"
        BY <2>7, <3>4 DEF InsertMany, NextCollection
      <4>2. QED
        BY <2>1, <3>1, <3>2, <4>1 DEF OnceInv, Loop
    <3>5. QED
      BY <2>1, <3>3, <3>4
  <2>8. QED
    BY <1>5, <2>5, <2>6, <2>7
<1>6. CASE Save
  BY <1>1, <1>6 DEF Save, BeginSave, ReadCollection, StoreAsset, StoreEvent, BackupFails, NextCollection, Loop
<1>7. ASSUME NEW n \in Names, Write(n) PROVE OnceInv'
  <2>1. /\ UNCHANGED <<old, lostAt, restores, pc, at>> /\ written' = written + 1
        /\ \A c \in Names : cols[c] \subseteq cols'[c]
        /\ written' \in cols'[n]
    BY <1>0, <1>7 DEF Write
  <2>2. written \in Nat /\ lostAt \in Nat
    BY DEF CollectionPart
  <2>3. \A d \in (lostAt + 1)..written' : d = written' \/ d \in (lostAt + 1)..written
    BY <2>1, <2>2
  <2>4. QED
    BY <2>1, <2>3 DEF OnceInv
<1>8. CASE Restart
  BY <1>1, <1>8 DEF Restart, StartAgain, Loop
<1>9. CASE LoseDatabase
  <2>1. old' = NoDocs /\ pc' = "load" /\ lostAt' = written /\ written' = written /\ restores' = 0
    BY <1>9 DEF LoseDatabase, StartAgain
  <2>2. (lostAt' + 1)..written' = {}
    BY <2>1 DEF CollectionPart
  <2>3. QED
    BY <2>1, <2>2 DEF OnceInv, Loop
<1>10. CASE UNCHANGED vars
  BY <1>1, <1>10 DEF vars
<1>11. QED
  BY <1>2, <1>3, <1>4, <1>5, <1>6, <1>7, <1>8, <1>9, <1>10 DEF Next, RestoreCollections

LEMMA OnceInit == Init => OnceInv
<1> SUFFICES ASSUME Init PROVE OnceInv
  OBVIOUS
<1>1. (lostAt + 1)..written = {} /\ pc = "load" /\ old = NoDocs
  BY DEF Init, RestorerInit
<1>2. QED
  BY <1>1 DEF OnceInv, Loop

CleanInv == troubles = 0 => BundleInv /\ CollectionInv
StartInv == TypeInv /\ Composed /\ BackupInv /\ CleanInv /\ OnceInv

LEMMA StartAlways == Spec => []StartInv
<1>1. Init => StartInv
  BY TypeInit, BundleInit, BackupInit, CollectionInit, OnceInit DEF StartInv, CleanInv
<1>2. StartInv /\ [Next]_vars => StartInv'
  <2> SUFFICES ASSUME StartInv, [Next]_vars PROVE StartInv'
    OBVIOUS
  <2>1. TypeInv' /\ Composed' /\ BackupInv' /\ OnceInv'
    BY TypeStep, ComposedStep, BackupStep, OnceStep DEF StartInv
  <2>2. ASSUME troubles' = 0 PROVE BundleInv' /\ CollectionInv'
    <3>1. troubles = 0 /\ BundleInv /\ CollectionInv
      BY <2>2, TroublesGrow DEF StartInv, CleanInv
    <3>2. BundleInv'
      BY <2>2, <3>1, BundleStep DEF StartInv
    <3>3. QED
      BY <2>1, <2>2, <3>1, <3>2, CollectionStep DEF StartInv
  <2>3. QED
    BY <2>1, <2>2 DEF StartInv, CleanInv
<1>3. QED
  BY <1>1, <1>2, PTL DEF Spec

(* Restoring the bundles is complete as far as the Atlas nodes let it: the scan   *)
(* goes on where the saved block and the copy left off, a bundle is given up only *)
(* when each of its listed donors has failed to answer, and what the worker       *)
(* uploads meanwhile is in the database.                                         *)
THEOREM BundlesComeBack == Spec => []BundlesAreBack
<1>1. StartInv => BundlesAreBack
  BY AtHand DEF StartInv, CleanInv, BundleInv, FoundPart, BundlesAreBack, Recovered
<1>2. QED
  BY <1>1, StartAlways, PTL

(* parseBundle stores the body before the entries, and finds a body that is there *)
(* enough: without a failure in between, there is no body without its entities.   *)
THEOREM BundlesAreWhole == Spec => []NoHalfBundle
<1>1. StartInv => NoHalfBundle
  BY DEF StartInv, CleanInv, BundleInv, HalfPart, NoHalfBundle
<1>2. QED
  BY <1>1, StartAlways, PTL

(* The collections are restored after the bundles, so from the latest backup      *)
(* there is, and once a node has started, each later backup holds no more than    *)
(* the collections do; whoever restarts finds them as they were left.            *)
THEOREM CollectionsComeBack == Spec => []CollectionsAreBack
<1>1. StartInv => CollectionsAreBack
  BY DEF StartInv, CleanInv, CollectionInv, CollectionsBack, CollectionsAreBack
<1>2. QED
  BY <1>1, StartAlways, PTL

(* restore() renames a collection before it fills it: what others have written    *)
(* since the loss, also in the middle of the restore, is in one of the two.  It   *)
(* stays there through every failure and crash until a second restore begins, and *)
(* for ever if none of the node's own calls fails and no restore is interrupted.  *)
THEOREM DocumentsAreKept == Spec => []NothingIsOverwritten
<1>1. StartInv => NothingIsOverwritten
  BY DEF StartInv, CleanInv, CollectionInv, OnceInv, NothingIsOverwritten
<1>2. QED
  BY <1>1, StartAlways, PTL
=============================================================================
