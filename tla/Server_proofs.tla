--------------------------- MODULE Server_proofs ----------------------------
(***************************************************************************)
(* The two halves of the server, for any number of images, requests,       *)
(* goroutines, shards, failures and restarts.  The searcher that is served *)
(* is open and the others are closed, and what it holds keeps up with      *)
(* builds and deletions (SearcherSwap); builds are scheduled one at a time *)
(* and none that is needed is forgotten (BuildScheduler).                  *)
(***************************************************************************)
EXTENDS SearcherSwap, BuildScheduler, TLAPS

-----------------------------------------------------------------------------
(* Slots.                                                                  *)

LEMMA ServedInit == Init => ServedIsOpen
BY DEF Init, ServedIsOpen

\* Swap and Close are the only steps that touch the slots.
LEMMA ServedStep == ServedIsOpen /\ [Next]_vars => ServedIsOpen'
<1> SUFFICES ASSUME ServedIsOpen, [Next]_vars PROVE ServedIsOpen'
  OBVIOUS
<1>1. ASSUME NEW p \in Reloader, Swap(p) PROVE ServedIsOpen'
  BY <1>1 DEF Swap, ServedIsOpen
<1>2. ASSUME NEW s \in Slot, Close(s) PROVE ServedIsOpen'
  BY <1>2 DEF Close, ServedIsOpen
<1>3. ASSUME UNCHANGED slotVars PROVE ServedIsOpen'
  BY <1>3 DEF slotVars, ServedIsOpen
<1>4. ASSUME NEW p \in Reloader, OpenMain(p) \/ OpenShard(p) \/ OpenEnd(p) \/ OpenFails(p)
      PROVE UNCHANGED slotVars
  BY <1>4 DEF OpenMain, OpenShard, OpenEnd, OpenFails
<1>5. ASSUME NEW i \in Image, AddImage(i) PROVE UNCHANGED slotVars
  BY <1>5 DEF AddImage
<1>6. ASSUME NEW d \in Deleter, NEW i \in Image, Delete(d, i) PROVE UNCHANGED slotVars
  BY <1>6 DEF Delete
<1>7. ASSUME Build \/ CompactSkip \/ CompactLoad \/ CompactRename
             \/ CompactRemove \/ CompactEnd \/ CompactFails
      PROVE UNCHANGED slotVars
  BY <1>7 DEF Build, CompactSkip, CompactLoad, CompactRename, CompactRemove,
              CompactEnd, CompactFails
<1>8. ASSUME UNCHANGED vars PROVE UNCHANGED slotVars
  BY <1>8 DEF vars
<1> QED
  BY <1>1, <1>2, <1>3, <1>4, <1>5, <1>6, <1>7, <1>8 DEF Next, ReloadStep

\* The searcher that requests pick up is open, and every other open one has a
\* goroutine that will close it, however many reloads there are at a time
\* (reloadSearcher in internal/server/server.go).
THEOREM AlwaysServedIsOpen == Spec => []ServedIsOpen
BY ServedInit, ServedStep, PTL DEF Spec

-----------------------------------------------------------------------------
(* Files and what reloads make of them.                                    *)

Load == [pc : {"idle", "open", "swap"}, at : Int, got : SUBSET Image]

Typed ==
    /\ waiting \in SUBSET Image /\ main \in SUBSET Image /\ merged \in SUBSET Image
    /\ shard \in [Shards -> (SUBSET Image) \cup {NoFile}]
    /\ build \in {"idle", "reload", "count", "rename", "remove", "reload again"}
    /\ req \in [Deleter -> SUBSET Image]
    /\ load \in [Reloader -> Load]
    /\ content \in [Slot -> SUBSET Image]
    /\ current \in Slot
    /\ used \in SUBSET Image /\ shown \in SUBSET Image /\ purged \in SUBSET Image
    /\ told \in SUBSET Image /\ raced \in SUBSET Image

\* An image that is in some file.
Holds(i) == i \in main \/ \E f \in Shards : shard[f] # NoFile /\ i \in shard[f]

\* What has been purged is nowhere on disk, nor in a merge, and waits for no
\* build; and a deletion is about an image it has purged.
Apart ==
    /\ \A i \in purged : i \notin waiting /\ i \notin merged /\ ~Holds(i)
    /\ told \subseteq purged /\ purged \subseteq used
    /\ \A d \in Deleter : req[d] \subseteq purged

\* A reload at rest has nothing open; the build goroutine reloads in its own
\* phases only.
Resting ==
    /\ \A p \in Reloader : load[p].pc = "idle" => load[p].got = {}
    /\ build \notin {"reload", "reload again"} => load[Builder].pc = "idle"

\* Counting finds all shards, but while a merge removes them; then the main
\* file has everything.
Counted ==
    /\ build # "remove" =>
          \A f, g \in Shards : g < f /\ shard[f] # NoFile => shard[g] # NoFile
    /\ build = "remove" =>
          \A f \in Shards : shard[f] # NoFile => shard[f] \subseteq main

\* A merge has read what is on disk, and otherwise nothing is in memory.
Merges ==
    /\ build = "rename" => \A i \in Image : i \in merged <=> Holds(i)
    /\ build # "rename" => merged = {}

\* Nothing purged is in a reload that no other has raced ...
Clean == \A p \in Reloader : load[p].got \cap purged \subseteq raced

\* ... which has all there is in the files behind it ...
Reading ==
    \A p \in Reloader :
        load[p].pc = "open" /\ load[p].at > 0 =>
            /\ main \subseteq load[p].got \cup raced
            /\ \A f \in Shards :
                  f < load[p].at /\ shard[f] # NoFile => shard[f] \subseteq load[p].got \cup raced

\* ... and in the end all there is.
Ready ==
    \A p \in Reloader :
        load[p].pc = "swap" => \A i \in Image : Holds(i) => i \in load[p].got \cup raced

\* What has been shown is on disk until it is purged.
Kept == \A i \in shown : Holds(i) \/ i \in purged

IInv ==
    /\ Typed /\ Apart /\ Resting /\ Counted /\ Merges /\ Clean /\ Reading /\ Ready /\ Kept
    /\ PurgeSeenApart /\ BuiltIsServed

LEMMA OnDiskHolds == \A i : i \in OnDisk <=> Holds(i)
BY DEF OnDisk, InShards, Holds

LEMMA InShardsHolds ==
    \A i : i \in InShards <=> \E f \in Shards : shard[f] # NoFile /\ i \in shard[f]
BY DEF InShards

LEMMA ZeroOne == 0 \in Int /\ 1 \in Int
OBVIOUS

LEMMA LoadMakes ==
    \A n \in Int, S \in SUBSET Image :
        /\ [pc |-> "idle", at |-> n, got |-> S] \in Load
        /\ [pc |-> "open", at |-> n, got |-> S] \in Load
        /\ [pc |-> "swap", at |-> n, got |-> S] \in Load
BY DEF Load

LEMMA LoadTypes ==
    ASSUME NEW l \in Load
    PROVE  /\ l.pc \in {"idle", "open", "swap"} /\ l.at \in Int /\ l.at + 1 \in Int /\ l.got \in SUBSET Image
BY DEF Load

LEMMA LoadEnds == Settled \in Load /\ Opening \in Load
BY ZeroOne, LoadMakes, Zenon DEF Settled, Opening

LEMMA LoadsTyped ==
    ASSUME Typed, NEW p \in Reloader
    PROVE  /\ load[p] \in Load
           /\ load[p].at \in Int /\ load[p].at + 1 \in Int /\ load[p].got \in SUBSET Image
BY LoadTypes DEF Typed

LEMMA InitIInv == Init => IInv
<1> SUFFICES ASSUME Init PROVE IInv
  OBVIOUS
<1> USE DEF Init
<1>1. Typed
  BY LoadEnds DEF Typed, NoImage
<1>2. \A p \in Reloader : load[p] = Settled
  OBVIOUS
<1>3. \A f \in Shards : shard[f] = NoFile
  OBVIOUS
<1>4. Apart /\ Resting /\ Counted /\ Merges
  BY <1>2, <1>3 DEF Apart, Resting, Counted, Merges, Holds, NoImage, Settled, Reloader
<1>5. Clean /\ Reading /\ Ready /\ Kept
  BY <1>2, <1>3 DEF Clean, Reading, Ready, Kept, Settled, Holds
<1>6. PurgeSeenApart /\ BuiltIsServed
  BY DEF PurgeSeenApart, BuiltIsServed
<1> QED BY <1>1, <1>4, <1>5, <1>6 DEF IInv

-----------------------------------------------------------------------------
(* Types.                                                                  *)

LEMMA TypedStep == Typed /\ [Next]_vars => Typed'
<1> SUFFICES ASSUME Typed, [Next]_vars PROVE Typed'
  OBVIOUS
<1> USE DEF Typed
<1>1. ASSUME NEW i \in Image, AddImage(i) PROVE Typed'
  BY <1>1 DEF AddImage, fileVars, slotVars
<1>2. ASSUME NEW p \in Reloader, OpenMain(p) PROVE Typed'
  <2>1. [pc |-> "open", at |-> 1, got |-> main] \in Load
    <3>1. main \in SUBSET Image
      OBVIOUS
    <3> QED BY <3>1, ZeroOne, LoadMakes, Zenon
  <2> QED BY <1>2, <2>1 DEF OpenMain, fileVars, slotVars, histVars
<1>3. ASSUME NEW p \in Reloader, OpenShard(p) PROVE Typed'
  <2>1. load[p].got \cup shard[load[p].at] \in SUBSET Image
    <3>1. shard[load[p].at] \in SUBSET Image
      BY <1>3 DEF OpenShard
    <3> QED BY <3>1, LoadsTyped, Zenon
  <2>2. load[p].at + 1 \in Int
    BY LoadsTyped, Zenon
  <2>3. [pc |-> "open", at |-> load[p].at + 1, got |-> load[p].got \cup shard[load[p].at]] \in Load
    BY <2>1, <2>2, LoadMakes, Zenon
  <2> QED BY <1>3, <2>3 DEF OpenShard, fileVars, slotVars, histVars
<1>4. ASSUME NEW p \in Reloader, OpenEnd(p) PROVE Typed'
  <2>1. [pc |-> "swap", at |-> 0, got |-> load[p].got] \in Load
    BY ZeroOne, LoadsTyped, LoadMakes, Zenon
  <2> QED BY <1>4, <2>1 DEF OpenEnd, fileVars, slotVars, histVars
<1>5. ASSUME NEW p \in Reloader, OpenFails(p) PROVE Typed'
  <2>1. req' \in [Deleter -> SUBSET Image]
    BY <1>5 DEF OpenFails, NoImage
  <2>2. load' \in [Reloader -> Load]
    BY <1>5, LoadEnds DEF OpenFails
  <2>3. build' \in {"idle", "reload", "count", "rename", "remove", "reload again"}
    BY <1>5 DEF OpenFails
  <2> QED BY <1>5, <2>1, <2>2, <2>3 DEF OpenFails, fileVars, slotVars, histVars
<1>6. ASSUME NEW p \in Reloader, Swap(p) PROVE Typed'
  <2>1. content' \in [Slot -> SUBSET Image] /\ current' \in Slot
    BY <1>6, LoadsTyped DEF Swap
  <2>2. load' \in [Reloader -> Load]
    BY <1>6, LoadEnds DEF Swap, Reloaded
  <2>3. OnDisk \in SUBSET Image
    BY DEF OnDisk, InShards
  <2>4. CASE p = Builder
    BY <1>6, <2>1, <2>2, <2>3, <2>4 DEF Swap, Reloaded, fileVars
  <2>5. CASE p # Builder
    <3>1. p \in Deleter
      BY <2>5 DEF Reloader
    <3> QED BY <1>6, <2>1, <2>2, <2>5, <3>1 DEF Swap, Reloaded, fileVars, NoImage
  <2> QED BY <2>4, <2>5
<1>7. ASSUME NEW s \in Slot, Close(s) PROVE Typed'
  BY <1>7 DEF Close, fileVars, histVars
<1>8. CASE Build
  <2>1. shard' \in [Shards -> (SUBSET Image) \cup {NoFile}]
    BY <1>8 DEF Build
  <2>2. load' \in [Reloader -> Load]
    BY <1>8, LoadEnds DEF Build, Reloader
  <2> QED BY <1>8, <2>1, <2>2 DEF Build, slotVars
<1>9. CASE CompactSkip
  BY <1>9 DEF CompactSkip, fileVars, slotVars, histVars
<1>10. CASE CompactLoad
  <2>1. OnDisk \in SUBSET Image
    BY DEF OnDisk, InShards
  <2> QED BY <1>10, <2>1 DEF CompactLoad, fileVars, slotVars, histVars
<1>11. CASE CompactRename
  <2>1. InShards \in SUBSET Image
    BY DEF InShards
  <2> QED BY <1>11, <2>1 DEF CompactRename, slotVars
<1>12. CASE CompactRemove
  BY <1>12 DEF CompactRemove, slotVars, histVars
<1>13. CASE CompactEnd
  BY <1>13, LoadEnds DEF CompactEnd, fileVars, slotVars, histVars
<1>14. CASE CompactFails
  BY <1>14 DEF CompactFails, fileVars, slotVars, histVars
<1>15. ASSUME NEW d \in Deleter, NEW i \in Image, Delete(d, i) PROVE Typed'
  <2>1. \A f \in Shards : Without(shard[f], i) \in (SUBSET Image) \cup {NoFile}
    BY DEF Without
  <2>2. load' \in [Reloader -> Load]
    BY <1>15, LoadEnds DEF Delete, Reloader
  <2> QED BY <1>15, <2>1, <2>2 DEF Delete, slotVars
<1>16. CASE UNCHANGED vars
  BY <1>16 DEF vars, fileVars, slotVars, histVars
<1> QED
  BY <1>1, <1>2, <1>3, <1>4, <1>5, <1>6, <1>7, <1>8, <1>9, <1>10, <1>11, <1>12,
     <1>13, <1>14, <1>15, <1>16 DEF Next, ReloadStep

-----------------------------------------------------------------------------
(* Steps that leave the files as they are.                                 *)

LEMMA HoldsSame ==
    ASSUME UNCHANGED fileVars
    PROVE  \A i : Holds(i)' <=> Holds(i)
BY DEF fileVars, Holds

LEMMA AddStep ==
    ASSUME IInv, NEW j \in Image, AddImage(j)
    PROVE  IInv'
<1> USE DEF AddImage, slotVars
<1>1. \A i : Holds(i)' <=> Holds(i)
  BY HoldsSame
<1>2. Typed'
  BY TypedStep DEF IInv, Next
<1>3. Apart'
  BY <1>1 DEF IInv, Apart
<1>4. (Resting /\ Counted /\ Merges)'
  BY <1>1 DEF IInv, Resting, Counted, Merges, fileVars
<1>5. (Clean /\ Reading /\ Ready /\ Kept)'
  BY <1>1 DEF IInv, Clean, Reading, Ready, Kept, fileVars
<1>6. (PurgeSeenApart /\ BuiltIsServed)'
  BY DEF IInv, PurgeSeenApart, BuiltIsServed
<1> QED BY <1>2, <1>3, <1>4, <1>5, <1>6 DEF IInv

\* A reload that goes on: what it has opened so far is what matters.
LEMMA GoesOn ==
    ASSUME IInv, NEW p \in Reloader, NEW l \in Load,
           load[p].pc # "idle", load' = [load EXCEPT ![p] = l],
           UNCHANGED <<waiting, fileVars, build, merged, req, slotVars, histVars>>,
           Typed', l.pc # "idle", l.got \cap purged \subseteq raced,
           l.pc = "open" /\ l.at > 0 =>
               /\ main \subseteq l.got \cup raced
               /\ \A f \in Shards : f < l.at /\ shard[f] # NoFile => shard[f] \subseteq l.got \cup raced,
           l.pc = "swap" => \A i \in Image : Holds(i) => i \in l.got \cup raced
    PROVE  IInv'
<1>1. \A q \in Reloader : load'[q] = IF q = p THEN l ELSE load[q]
  BY DEF IInv, Typed
<1>2. \A i : Holds(i)' <=> Holds(i)
  BY HoldsSame
<1>3. (Apart /\ Counted /\ Merges /\ Kept)'
  BY <1>2 DEF IInv, Apart, Counted, Merges, Kept, fileVars, histVars
<1>4. Resting'
  BY <1>1 DEF IInv, Resting, Reloader
<1>5. Clean'
  BY <1>1 DEF IInv, Clean, histVars
<1>6. Reading'
  BY <1>1 DEF IInv, Reading, fileVars, histVars
<1>7. Ready'
  BY <1>1, <1>2 DEF IInv, Ready, histVars
<1>8. (PurgeSeenApart /\ BuiltIsServed)'
  BY DEF IInv, PurgeSeenApart, BuiltIsServed, slotVars, histVars
<1> QED BY <1>3, <1>4, <1>5, <1>6, <1>7, <1>8 DEF IInv

LEMMA OpenMainStep ==
    ASSUME IInv, NEW p \in Reloader, OpenMain(p), Typed'
    PROVE  IInv'
<1> DEFINE l == [pc |-> "open", at |-> 1, got |-> main]
<1>1. main \in SUBSET Image
  BY DEF IInv, Typed
<1>2. l \in Load
  BY <1>1, ZeroOne, LoadMakes, Zenon
<1>3. l.pc = "open" /\ l.at = 1 /\ l.got = main
  OBVIOUS
<1>4. main \cap purged \subseteq raced
  BY DEF IInv, Apart, Holds
<1>5. \A f \in Shards : ~(f < 1)
  BY ShardsAssumption DEF Shards
<1> HIDE DEF l
<1>6. load[p].pc # "idle" /\ load' = [load EXCEPT ![p] = l]
      /\ UNCHANGED <<waiting, fileVars, build, merged, req, slotVars, histVars>>
  BY DEF OpenMain, l
<1> QED BY <1>2, <1>3, <1>4, <1>5, <1>6, GoesOn

LEMMA OpenShardStep ==
    ASSUME IInv, NEW p \in Reloader, OpenShard(p), Typed'
    PROVE  IInv'
<1> DEFINE f == load[p].at
           l == [pc |-> "open", at |-> f + 1, got |-> load[p].got \cup shard[f]]
<1>1. Typed /\ f \in Shards /\ shard[f] # NoFile /\ load[p].pc = "open"
  BY DEF IInv, OpenShard
<1>2. shard[f] \in SUBSET Image
  BY <1>1 DEF Typed
<1>3. load[p].got \cup shard[f] \in SUBSET Image
  BY <1>1, <1>2, LoadsTyped, Zenon
<1>4. f + 1 \in Int
  BY <1>1, LoadsTyped, Zenon
<1>5. l \in Load
  BY <1>3, <1>4, LoadMakes, Zenon
<1>6. l.pc = "open" /\ l.at = f + 1 /\ l.got = load[p].got \cup shard[f]
  OBVIOUS
<1>7. (load[p].got \cup shard[f]) \cap purged \subseteq raced
  BY <1>1 DEF IInv, Apart, Holds, Clean
<1>8. f > 0
  BY <1>1, ShardsAssumption DEF Shards
<1>9. main \subseteq load[p].got \cup raced
      /\ \A g \in Shards : g < f /\ shard[g] # NoFile => shard[g] \subseteq load[p].got \cup raced
  BY <1>1, <1>8 DEF IInv, Reading
<1>10. \A g \in Shards : g < f + 1 => g < f \/ g = f
  BY <1>1, ShardsAssumption DEF Shards
<1>11. load' = [load EXCEPT ![p] = l]
       /\ UNCHANGED <<waiting, fileVars, build, merged, req, slotVars, histVars>>
  BY DEF OpenShard
<1>12. \A g \in Shards : g < l.at /\ shard[g] # NoFile => shard[g] \subseteq l.got \cup raced
  BY <1>6, <1>9, <1>10
<1> HIDE DEF l, f
<1> QED BY <1>1, <1>5, <1>6, <1>7, <1>9, <1>11, <1>12, GoesOn

LEMMA Between ==
    \A n \in Int : n > 0 => \A g \in Shards : g < n \/ g = n \/ (n \in Shards /\ n < g)
BY ShardsAssumption DEF Shards

\* No shard is behind the one that is missing, unless the main file has it.
LEMMA OpenEndStep ==
    ASSUME IInv, NEW p \in Reloader, OpenEnd(p), Typed'
    PROVE  IInv'
<1> DEFINE f == load[p].at
           l == [pc |-> "swap", at |-> 0, got |-> load[p].got]
<1>1. Typed /\ load[p].pc = "open" /\ f > 0 /\ (f \in Shards => shard[f] = NoFile)
  BY DEF IInv, OpenEnd
<1>2. f \in Int /\ load[p].got \in SUBSET Image
  BY <1>1, LoadsTyped, Zenon
<1>3. l \in Load
  BY <1>2, ZeroOne, LoadMakes, Zenon
<1>4. l.pc = "swap" /\ l.got = load[p].got
  OBVIOUS
<1>5. load[p].got \cap purged \subseteq raced
  BY DEF IInv, Clean
<1>6. main \subseteq load[p].got \cup raced
      /\ \A g \in Shards : g < f /\ shard[g] # NoFile => shard[g] \subseteq load[p].got \cup raced
  BY <1>1 DEF IInv, Reading
<1>7. \A g \in Shards : g < f \/ g = f \/ (f \in Shards /\ f < g)
  BY <1>1, <1>2, Between, Zenon
<1>8. \A g \in Shards : shard[g] # NoFile => shard[g] \subseteq load[p].got \cup raced
  <2> SUFFICES ASSUME NEW g \in Shards, shard[g] # NoFile
               PROVE  shard[g] \subseteq load[p].got \cup raced
    OBVIOUS
  <2>1. CASE build = "remove"
    BY <1>6, <2>1 DEF IInv, Counted
  <2>2. CASE build # "remove"
    BY <1>1, <1>6, <1>7, <2>2 DEF IInv, Counted
  <2> QED BY <2>1, <2>2
<1>9. \A i \in Image : Holds(i) => i \in l.got \cup raced
  BY <1>4, <1>6, <1>8 DEF Holds
<1>10. load' = [load EXCEPT ![p] = l]
       /\ UNCHANGED <<waiting, fileVars, build, merged, req, slotVars, histVars>>
  BY DEF OpenEnd
<1> HIDE DEF l, f
<1> QED BY <1>1, <1>3, <1>4, <1>5, <1>9, <1>10, GoesOn

LEMMA OpenFailsStep ==
    ASSUME IInv, NEW p \in Reloader, OpenFails(p), Typed'
    PROVE  IInv'
<1>1. \A q \in Reloader : load'[q] = IF q = p THEN Settled ELSE load[q]
  BY DEF IInv, Typed, OpenFails
<1>2. Settled.pc = "idle" /\ Settled.got = {}
  BY DEF Settled
<1>3. UNCHANGED <<waiting, fileVars, merged, slotVars, histVars>>
  BY DEF OpenFails
<1>4. \A i : Holds(i)' <=> Holds(i)
  BY <1>3, HoldsSame
<1>5. \A d \in Deleter : req'[d] \subseteq req[d]
  BY DEF OpenFails, NoImage
<1>6. /\ p # Builder => build' = build
      /\ p = Builder => build' \notin {"remove", "rename"}
  BY Zenon DEF OpenFails
<1>7. p = Builder => build # "remove" /\ build # "rename"
  BY DEF IInv, Resting, OpenFails
<1>8. Apart'
  BY <1>3, <1>4, <1>5 DEF IInv, Apart, histVars
<1>9. Counted' /\ Merges' /\ Kept'
  BY <1>3, <1>4, <1>6, <1>7 DEF IInv, Counted, Merges, Kept, fileVars, histVars
<1>10. Resting'
  BY <1>1, <1>2, <1>6 DEF IInv, Resting, Reloader
<1>11. Clean' /\ Reading' /\ Ready'
  BY <1>1, <1>2, <1>3, <1>4 DEF IInv, Clean, Reading, Ready, fileVars, histVars
<1>12. (PurgeSeenApart /\ BuiltIsServed)'
  BY <1>3 DEF IInv, PurgeSeenApart, BuiltIsServed, slotVars, histVars
<1> QED BY <1>8, <1>9, <1>10, <1>11, <1>12 DEF IInv

\* Where the new searcher goes nothing is open; what it holds is what Clean and
\* Ready say of it.
LEMMA SwapStep ==
    ASSUME IInv, NEW p \in Reloader, Swap(p), Typed'
    PROVE  IInv'
<1>1. \A q \in Reloader : load'[q] = IF q = p THEN Settled ELSE load[q]
  BY DEF IInv, Typed, Swap, Reloaded
<1>2. Settled.pc = "idle" /\ Settled.got = {}
  BY DEF Settled
<1>3. UNCHANGED <<waiting, fileVars, merged, used, purged, raced>>
  BY DEF Swap
<1>4. \A i : Holds(i)' <=> Holds(i)
  BY <1>3, HoldsSame
<1>5. load[p].pc = "swap" /\ content'[current'] = load[p].got
  BY DEF IInv, Typed, Swap
<1>6. /\ p # Builder => build' = build /\ shown' = shown
      /\ p = Builder => build' \notin {"remove", "rename"} /\ shown' = shown \cup OnDisk
  BY DEF Swap, Reloaded
<1>7. p = Builder => build # "remove" /\ build # "rename"
  BY <1>5 DEF IInv, Resting
<1>8. told' \subseteq purged /\ \A d \in Deleter : req'[d] \subseteq purged
  <2>1. CASE p = Builder
    BY <2>1 DEF IInv, Apart, Swap, Reloaded
  <2>2. CASE p # Builder
    <3>1. p \in Deleter
      BY <2>2 DEF Reloader
    <3>2. \A d \in Deleter : req'[d] \subseteq req[d]
      BY <2>2 DEF IInv, Typed, Swap, Reloaded, NoImage
    <3>3. told' = told \cup req[p]
      BY <2>2 DEF Swap, Reloaded
    <3> QED BY <3>1, <3>2, <3>3 DEF IInv, Apart
  <2> QED BY <2>1, <2>2
<1>9. Apart'
  BY <1>3, <1>4, <1>8 DEF IInv, Apart
<1>10. Counted' /\ Merges'
  BY <1>3, <1>4, <1>6, <1>7 DEF IInv, Counted, Merges, fileVars
<1>11. Kept'
  BY <1>3, <1>4, <1>6, OnDiskHolds DEF IInv, Kept
<1>12. Resting'
  BY <1>1, <1>2, <1>6 DEF IInv, Resting, Reloader
<1>13. Clean' /\ Reading' /\ Ready'
  BY <1>1, <1>2, <1>3, <1>4 DEF IInv, Clean, Reading, Ready, fileVars
<1>14. PurgeSeenApart'
  BY <1>3, <1>5, <1>8 DEF IInv, Clean, PurgeSeenApart
<1>15. BuiltIsServed'
  <2>1. \A i \in Image : Holds(i) => i \in load[p].got \cup raced
    BY <1>5 DEF IInv, Ready
  <2>2. shown' \subseteq Image
    BY DEF Typed
  <2>3. \A i \in shown' : Holds(i) \/ i \in purged
    BY <1>3, <1>4, <1>11 DEF Kept
  <2> QED BY <1>3, <1>5, <2>1, <2>2, <2>3 DEF BuiltIsServed
<1> QED BY <1>9, <1>10, <1>11, <1>12, <1>13, <1>14, <1>15 DEF IInv

\* The searcher that is closed is not the one that is served.
LEMMA CloseStep ==
    ASSUME IInv, ServedIsOpen, NEW s \in Slot, Close(s), Typed'
    PROVE  IInv'
<1>1. content'[current'] = content[current]
  BY DEF IInv, Typed, ServedIsOpen, Close
<1>2. UNCHANGED <<waiting, fileVars, build, merged, req, load, current, histVars>>
  BY DEF Close
<1>3. \A i : Holds(i)' <=> Holds(i)
  BY <1>2, HoldsSame
<1>4. (Apart /\ Resting /\ Counted /\ Merges)'
  BY <1>2, <1>3 DEF IInv, Apart, Resting, Counted, Merges, fileVars, histVars
<1>5. (Clean /\ Reading /\ Ready /\ Kept)'
  BY <1>2, <1>3 DEF IInv, Clean, Reading, Ready, Kept, fileVars, histVars
<1>6. (PurgeSeenApart /\ BuiltIsServed)'
  BY <1>1, <1>2 DEF IInv, PurgeSeenApart, BuiltIsServed, histVars
<1> QED BY <1>4, <1>5, <1>6 DEF IInv

\* Steps of the build goroutine that leave files and reloads alone.
LEMMA BuildPhaseStep ==
    ASSUME IInv, CompactSkip \/ CompactLoad \/ CompactFails, Typed'
    PROVE  IInv'
<1>1. UNCHANGED <<waiting, fileVars, req, load, slotVars, histVars>>
  BY DEF CompactSkip, CompactLoad, CompactFails
<1>2. \A i : Holds(i)' <=> Holds(i)
  BY <1>1, HoldsSame
<1>3. /\ build \in {"count", "rename"} /\ build' \in {"idle", "rename"}
      /\ \A i \in merged' : Holds(i) \/ i \in merged
      /\ build' = "rename" => merged' = OnDisk
      /\ build' = "idle" => merged' = {} \/ (build = "count" /\ merged' = merged)
  BY OnDiskHolds DEF CompactSkip, CompactLoad, CompactFails
<1>4. Apart'
  BY <1>1, <1>2, <1>3 DEF IInv, Apart, histVars
<1>5. Resting' /\ Counted'
  BY <1>1, <1>3 DEF IInv, Resting, Counted, fileVars
<1>6. Merges'
  BY <1>2, <1>3, OnDiskHolds DEF IInv, Merges
<1>7. (Clean /\ Reading /\ Ready /\ Kept)'
  BY <1>1, <1>2 DEF IInv, Clean, Reading, Ready, Kept, fileVars, histVars
<1>8. (PurgeSeenApart /\ BuiltIsServed)'
  BY <1>1 DEF IInv, PurgeSeenApart, BuiltIsServed, slotVars, histVars
<1> QED BY <1>4, <1>5, <1>6, <1>7, <1>8 DEF IInv

LEMMA CompactEndStep ==
    ASSUME IInv, CompactEnd, Typed'
    PROVE  IInv'
<1>1. \A q \in Reloader : load'[q] = IF q = Builder THEN Opening ELSE load[q]
  BY DEF IInv, Typed, CompactEnd
<1>2. Opening.pc = "open" /\ Opening.at = 0 /\ Opening.got = {}
  BY DEF Opening
<1>3. UNCHANGED <<waiting, fileVars, merged, req, slotVars, histVars>>
      /\ build = "remove" /\ build' = "reload again"
  BY DEF CompactEnd
<1>4. \A i : Holds(i)' <=> Holds(i)
  BY <1>3, HoldsSame
<1>5. (Apart /\ Merges /\ Kept)'
  BY <1>3, <1>4 DEF IInv, Apart, Merges, Kept, histVars
<1>6. Counted'
  BY <1>3 DEF CompactEnd, Counted, fileVars
<1>7. Resting'
  BY <1>1, <1>2, <1>3 DEF IInv, Resting
<1>8. Clean'
  BY <1>1, <1>2, <1>3 DEF IInv, Clean, histVars
<1>9. Reading'
  <2>1. ~(Opening.at > 0)
    BY <1>2
  <2> QED BY <1>1, <1>3, <2>1 DEF IInv, Reading, fileVars, histVars
<1>10. Ready'
  BY <1>1, <1>2, <1>3, <1>4 DEF IInv, Ready, histVars
<1>11. (PurgeSeenApart /\ BuiltIsServed)'
  BY <1>3 DEF IInv, PurgeSeenApart, BuiltIsServed, slotVars, histVars
<1> QED BY <1>5, <1>6, <1>7, <1>8, <1>9, <1>10, <1>11 DEF IInv

-----------------------------------------------------------------------------
(* Steps that change files.  Whoever is half way with a reload meanwhile has *)
(* been raced.                                                             *)

\* The new shard comes behind the others.
LEMMA BuildKeepsAll ==
    ASSUME IInv, Build, Typed'
    PROVE  IInv'
<1>1. \A q \in Reloader : load'[q] = IF q = Builder THEN Opening ELSE load[q]
  BY DEF IInv, Typed, Build
<1>2. Opening.pc = "open" /\ Opening.at = 0 /\ Opening.got = {} /\ ~(Opening.at > 0)
  BY DEF Opening
<1>3. UNCHANGED <<main, merged, req, slotVars, used, shown, purged, told>>
      /\ build = "idle" /\ build' = "reload" /\ waiting' = {}
  BY DEF Build
<1>4. raced \subseteq raced'
  BY DEF Build
<1>5. \A q \in Reloader : q # Builder /\ load[q].pc # "idle" => waiting \subseteq raced'
  BY DEF Build, OthersReloading
<1>6. CASE waiting = {}
  <2>1. UNCHANGED fileVars
    BY <1>3, <1>6 DEF Build, fileVars
  <2>2. \A i : Holds(i)' <=> Holds(i)
    BY <2>1, HoldsSame
  <2>3. Apart'
    BY <1>3, <2>2 DEF IInv, Apart
  <2>4. Resting'
    BY <1>1, <1>2, <1>3 DEF IInv, Resting
  <2>5. (Counted /\ Merges /\ Kept)'
    BY <1>3, <2>1, <2>2 DEF IInv, Counted, Merges, Kept, fileVars
  <2>6. Clean'
    BY <1>1, <1>2, <1>3, <1>4 DEF IInv, Clean
  <2>7. Reading'
    BY <1>1, <1>2, <1>4, <2>1 DEF IInv, Reading, fileVars
  <2>8. Ready'
    BY <1>1, <1>2, <1>4, <2>2 DEF IInv, Ready
  <2>9. (PurgeSeenApart /\ BuiltIsServed)'
    BY <1>3, <1>4 DEF IInv, PurgeSeenApart, BuiltIsServed, slotVars
  <2> QED BY <2>3, <2>4, <2>5, <2>6, <2>7, <2>8, <2>9 DEF IInv
<1>7. CASE waiting # {}
  <2>1. PICK n \in 0..(MaxShards - 1) :
              IsShardCount(n) /\ shard' = [shard EXCEPT ![n + 1] = waiting]
    BY <1>7 DEF Build
  <2>2. n + 1 \in Shards /\ shard[n + 1] = NoFile /\ \A f \in Shards : f < n + 1 => shard[f] # NoFile
    BY <2>1, ShardsAssumption DEF IsShardCount, Shards
  <2>3. PICK m \in Shards : m = n + 1
    BY <2>2
  <2>4. shard[m] = NoFile /\ (\A f \in Shards : f < m => shard[f] # NoFile)
        /\ shard' = [shard EXCEPT ![m] = waiting]
    BY <2>1, <2>2, <2>3
  <2>5. \A f \in Shards : shard'[f] = IF f = m THEN waiting ELSE shard[f]
    BY <2>4 DEF IInv, Typed
  <2>6. waiting # NoFile
    BY NoFileAssumption DEF IInv, Typed
  <2>7. \A i : Holds(i)' <=> Holds(i) \/ i \in waiting
    BY <1>3, <2>4, <2>5, <2>6 DEF Holds
  <2>8. Apart'
    BY <1>3, <2>7 DEF IInv, Apart
  <2>9. Resting'
    BY <1>1, <1>2, <1>3 DEF IInv, Resting
  <2>10. Counted'
    <3>1. \A f, g \in Shards : g < f /\ f # m /\ shard[f] # NoFile => g # m /\ shard[g] # NoFile
      BY <1>3, <2>4 DEF IInv, Counted
    <3> QED BY <1>3, <2>4, <2>5, <2>6, <3>1 DEF Counted
  <2>11. Merges' /\ Kept'
    BY <1>3, <2>7 DEF IInv, Merges, Kept
  <2>12. Clean'
    BY <1>1, <1>2, <1>3, <1>4 DEF IInv, Clean
  <2>13. Reading'
    BY <1>1, <1>2, <1>3, <1>4, <1>5, <2>5 DEF IInv, Reading
  <2>14. Ready'
    BY <1>1, <1>2, <1>4, <1>5, <2>7 DEF IInv, Ready
  <2>15. (PurgeSeenApart /\ BuiltIsServed)'
    BY <1>3, <1>4 DEF IInv, PurgeSeenApart, BuiltIsServed, slotVars
  <2> QED BY <2>8, <2>9, <2>10, <2>11, <2>12, <2>13, <2>14, <2>15 DEF IInv
<1> QED BY <1>6, <1>7

\* The merged file has what all files had.
LEMMA CompactRenameStep ==
    ASSUME IInv, CompactRename, Typed'
    PROVE  IInv'
<1>1. UNCHANGED <<waiting, shard, req, load, slotVars, used, shown, purged, told>>
      /\ build = "rename" /\ build' = "remove" /\ main' = merged /\ merged' = {}
  BY DEF CompactRename
<1>2. \A i \in Image : i \in main' <=> Holds(i)
  BY <1>1 DEF IInv, Merges
<1>3. \A f \in Shards : shard[f] # NoFile => shard[f] \subseteq Image
  BY DEF IInv, Typed
<1>4. main' \subseteq Image
  BY DEF Typed
<1>5. \A i \in Image : Holds(i)' <=> Holds(i)
  BY <1>1, <1>2 DEF Holds
<1>6. \A i : Holds(i)' => i \in Image
  BY <1>1, <1>3, <1>4 DEF Holds
<1>7. raced \subseteq raced'
  BY DEF CompactRename
<1>8. \A q \in Reloader : q # Builder /\ load[q].pc # "idle" => InShards \subseteq raced'
  BY DEF CompactRename, OthersReloading
<1>9. load[Builder].pc = "idle"
  BY <1>1 DEF IInv, Resting
<1>10. Apart'
  BY <1>1, <1>5, <1>6 DEF IInv, Apart
<1>11. Resting' /\ Merges' /\ Clean'
  BY <1>1, <1>7 DEF IInv, Resting, Merges, Clean
<1>12. Counted'
  BY <1>1, <1>2, <1>3 DEF Counted, Holds
<1>13. Reading'
  <2> SUFFICES ASSUME NEW q \in Reloader, load[q].pc = "open", load[q].at > 0
               PROVE  /\ main' \subseteq load[q].got \cup raced'
                      /\ \A f \in Shards : f < load[q].at /\ shard[f] # NoFile =>
                             shard[f] \subseteq load[q].got \cup raced'
    BY <1>1 DEF Reading
  <2>1. main' \subseteq main \cup InShards
    BY <1>2, <1>4, InShardsHolds DEF Holds
  <2>2. InShards \subseteq raced'
    BY <1>8, <1>9
  <2>3. main \subseteq load[q].got \cup raced
    BY DEF IInv, Reading
  <2>4. main' \subseteq load[q].got \cup raced'
    BY <1>7, <2>1, <2>2, <2>3
  <2> QED BY <1>7, <2>4 DEF IInv, Reading
<1>14. Ready'
  BY <1>1, <1>5, <1>7 DEF IInv, Ready
<1>15. Kept'
  <2>1. shown \subseteq Image
    BY DEF IInv, Typed
  <2> QED BY <1>1, <1>5, <2>1 DEF IInv, Kept
<1>16. (PurgeSeenApart /\ BuiltIsServed)'
  BY <1>1, <1>7 DEF IInv, PurgeSeenApart, BuiltIsServed, slotVars
<1> QED BY <1>10, <1>11, <1>12, <1>13, <1>14, <1>15, <1>16 DEF IInv

\* The main file has what the shard had.
LEMMA CompactRemoveStep ==
    ASSUME IInv, CompactRemove, Typed'
    PROVE  IInv'
<1>1. UNCHANGED <<waiting, main, build, merged, req, load, slotVars, histVars>> /\ build = "remove"
  BY DEF CompactRemove
<1>2. \A f \in Shards : shard'[f] = shard[f] \/ shard'[f] = NoFile
  BY DEF CompactRemove, IInv, Typed
<1>3. \A f \in Shards : shard[f] # NoFile => shard[f] \subseteq main
  BY <1>1 DEF IInv, Counted
<1>4. \A i : Holds(i)' <=> Holds(i)
  BY <1>1, <1>2, <1>3 DEF Holds
<1>5. (Apart /\ Resting /\ Merges /\ Kept)'
  BY <1>1, <1>4 DEF IInv, Apart, Resting, Merges, Kept, histVars
<1>6. Counted'
  BY <1>1, <1>2, <1>3 DEF Counted
<1>7. (Clean /\ Reading /\ Ready)'
  BY <1>1, <1>2, <1>4 DEF IInv, Clean, Reading, Ready, histVars
<1>8. (PurgeSeenApart /\ BuiltIsServed)'
  BY <1>1 DEF IInv, PurgeSeenApart, BuiltIsServed, slotVars, histVars
<1> QED BY <1>5, <1>6, <1>7, <1>8 DEF IInv

\* The image leaves all files; a reload that is half way may have it still.
LEMMA DeleteStep ==
    ASSUME IInv, NEW d \in Deleter, NEW j \in Image, Delete(d, j), Typed'
    PROVE  IInv'
<1>1. \A q \in Reloader : load'[q] = IF q = d THEN Opening ELSE load[q]
  BY DEF IInv, Typed, Delete
<1>2. Opening.pc = "open" /\ Opening.at = 0 /\ Opening.got = {} /\ ~(Opening.at > 0)
  BY DEF Opening
<1>3. /\ UNCHANGED <<build, merged, slotVars, used, shown, told>>
      /\ build # "rename" /\ build # "remove"
      /\ j \in used /\ purged' = purged \cup {j} /\ waiting' = waiting \ {j} /\ main' = main \ {j}
  BY DEF Delete, Merging
<1>4. \A f \in Shards :
          /\ shard'[f] = NoFile <=> shard[f] = NoFile
          /\ shard[f] # NoFile => shard'[f] = shard[f] \ {j}
  <2>1. \A f \in Shards : shard'[f] = IF shard[f] = NoFile THEN NoFile ELSE shard[f] \ {j}
    BY DEF Delete, Without
  <2>2. \A f \in Shards : shard[f] # NoFile => shard[f] \ {j} # NoFile
    BY NoFileAssumption DEF IInv, Typed
  <2> QED BY <2>1, <2>2
<1>5. \A i : Holds(i)' <=> Holds(i) /\ i # j
  BY <1>3, <1>4 DEF Holds
<1>6. raced \subseteq raced'
  BY DEF Delete
<1>7. \A q \in Reloader : q # d /\ load[q].pc # "idle" => j \in raced'
  BY DEF Delete, OthersReloading
<1>8. \A e \in Deleter : req'[e] \subseteq req[e] \cup {j}
  BY DEF IInv, Typed, Delete
<1>9. Apart'
  <2>1. merged' = {}
    BY <1>3 DEF IInv, Merges
  <2> QED BY <1>3, <1>5, <1>8, <2>1 DEF IInv, Apart
<1>10. Resting'
  <2>1. d # Builder /\ Builder \in Reloader
    BY BuilderAssumption DEF Reloader
  <2> QED BY <1>1, <1>2, <1>3, <2>1 DEF IInv, Resting
<1>11. Counted'
  BY <1>3, <1>4 DEF IInv, Counted
<1>12. Merges'
  BY <1>3 DEF IInv, Merges
<1>13. Clean'
  <2> SUFFICES ASSUME NEW q \in Reloader PROVE load'[q].got \cap purged' \subseteq raced'
    BY DEF Clean
  <2>1. CASE q = d
    BY <1>1, <1>2, <2>1
  <2>2. CASE q # d /\ load[q].pc # "idle"
    BY <1>1, <1>3, <1>6, <1>7, <2>2 DEF IInv, Clean
  <2>3. CASE q # d /\ load[q].pc = "idle"
    BY <1>1, <2>3 DEF IInv, Resting
  <2> QED BY <2>1, <2>2, <2>3
<1>14. Reading'
  <2> SUFFICES ASSUME NEW q \in Reloader, q # d, load[q].pc = "open", load[q].at > 0
               PROVE  /\ main' \subseteq load[q].got \cup raced'
                      /\ \A f \in Shards : f < load[q].at /\ shard'[f] # NoFile =>
                             shard'[f] \subseteq load[q].got \cup raced'
    BY <1>1, <1>2 DEF Reading
  <2> QED BY <1>3, <1>4, <1>6 DEF IInv, Reading
<1>15. Ready'
  BY <1>1, <1>2, <1>5, <1>6 DEF IInv, Ready
<1>16. Kept'
  BY <1>3, <1>5 DEF IInv, Kept
<1>17. (PurgeSeenApart /\ BuiltIsServed)'
  BY <1>3, <1>6 DEF IInv, PurgeSeenApart, BuiltIsServed, slotVars
<1> QED BY <1>9, <1>10, <1>11, <1>12, <1>13, <1>14, <1>15, <1>16, <1>17 DEF IInv

-----------------------------------------------------------------------------
LEMMA NextIInv == IInv /\ ServedIsOpen /\ [Next]_vars => IInv'
<1> SUFFICES ASSUME IInv, ServedIsOpen, [Next]_vars PROVE IInv'
  OBVIOUS
<1>1. Typed'
  BY TypedStep DEF IInv
<1>2. CASE UNCHANGED vars
  <2>1. UNCHANGED fileVars
    BY <1>2 DEF vars, fileVars
  <2>2. \A i : Holds(i)' <=> Holds(i)
    BY <2>1, HoldsSame
  <2>3. (Apart /\ Resting /\ Counted /\ Merges /\ Kept)'
    BY <1>2, <2>2 DEF vars, fileVars, histVars, IInv, Apart, Resting, Counted, Merges, Kept
  <2>4. (Clean /\ Reading /\ Ready)'
    BY <1>2, <2>2 DEF vars, fileVars, histVars, IInv, Clean, Reading, Ready
  <2>5. (PurgeSeenApart /\ BuiltIsServed)'
    BY <1>2 DEF vars, slotVars, histVars, IInv, PurgeSeenApart, BuiltIsServed
  <2> QED BY <1>1, <2>3, <2>4, <2>5 DEF IInv
<1> QED
  BY <1>1, <1>2, AddStep, OpenMainStep, OpenShardStep, OpenEndStep, OpenFailsStep, SwapStep,
     CloseStep, BuildKeepsAll, BuildPhaseStep, CompactRenameStep, CompactRemoveStep,
     CompactEndStep, DeleteStep
  DEF Next, ReloadStep

LEMMA AlwaysIInv == Spec => []IInv
BY InitIInv, NextIInv, AlwaysServedIsOpen, PTL DEF Spec

\* What a deletion has purged and reloaded is not served again, unless another
\* reload was half way when it purged (deleteImage and reloadSearcher).
THEOREM AlwaysPurgeSeenApart == Spec => []PurgeSeenApart
<1>1. IInv => PurgeSeenApart
  BY DEF IInv
<1> QED BY <1>1, AlwaysIInv, PTL

\* What a build has written and reloaded stays served until it is deleted,
\* through every compaction, unless another reload was half way when its files
\* changed (startBuild, Compact and reloadSearcher).
THEOREM AlwaysBuiltIsServed == Spec => []BuiltIsServed
<1>1. IInv => BuiltIsServed
  BY DEF IInv
<1> QED BY <1>1, AlwaysIInv, PTL

-----------------------------------------------------------------------------
(* The type invariant of the runs.                                         *)

LoadInUse(l) ==
    /\ l.pc \in {"idle", "open", "swap"}
    /\ l.at \in 0..(MaxShards + 1)
    /\ l.got \subseteq used

LEMMA LoadInUseMakes ==
    /\ LoadInUse(Settled) /\ LoadInUse(Opening)
    /\ \A S \in SUBSET used : LoadInUse([pc |-> "open", at |-> 1, got |-> S])
    /\ \A S \in SUBSET used : LoadInUse([pc |-> "swap", at |-> 0, got |-> S])
    /\ \A f \in Shards, S \in SUBSET used : LoadInUse([pc |-> "open", at |-> f + 1, got |-> S])
BY ShardsAssumption DEF LoadInUse, Settled, Opening, Shards

LEMMA TypeOKInit == Init => TypeOK
BY LoadInUseMakes DEF Init, TypeOK, IsFile, LoadInUse, NoImage, Settled

\* Only AddImage changes "used"; it grows.
LEMMA TypeOKStep == Typed /\ Typed' /\ TypeOK /\ [Next]_vars => TypeOK'
<1> SUFFICES ASSUME Typed, Typed', TypeOK, [Next]_vars PROVE TypeOK'
  OBVIOUS
<1> DEFINE Files == waiting \cup main \cup merged \subseteq used /\ \A f \in Shards : IsFile(shard[f])
           Loads == \A p \in Reloader : LoadInUse(load[p])
           Others == /\ build \in {"idle", "reload", "count", "rename", "remove", "reload again"}
                     /\ \A d \in Deleter : req[d] \subseteq purged
                     /\ current \in Slot /\ used \subseteq Image
                     /\ shown \cup purged \cup told \cup raced \subseteq used
           Contents == \A s \in Slot : content[s] \subseteq used
<1>1. TypeOK <=> Files /\ Loads /\ Others /\ Contents
  BY DEF TypeOK, LoadInUse
<1>2. TypeOK' <=> (Files /\ Loads /\ Others /\ Contents)'
  BY DEF TypeOK, LoadInUse
<1>3. OnDisk \subseteq used /\ InShards \subseteq used
  BY <1>1 DEF OnDisk, InShards, IsFile
<1>4. ASSUME NEW p \in Reloader, NEW l, LoadInUse(l), load' = [load EXCEPT ![p] = l], used' = used
      PROVE  Loads'
  BY <1>1, <1>4 DEF Typed, LoadInUse
<1>5. ASSUME UNCHANGED <<load, used>> PROVE Loads'
  BY <1>1, <1>5 DEF LoadInUse
<1>6. ASSUME UNCHANGED <<waiting, merged, fileVars, used>> PROVE Files'
  BY <1>1, <1>6 DEF fileVars, IsFile
<1>7. build' \in {"idle", "reload", "count", "rename", "remove", "reload again"}
      /\ current' \in Slot /\ used' \subseteq Image
  BY DEF Typed
<1>8. ASSUME UNCHANGED <<req, histVars>> PROVE Others'
  BY <1>1, <1>7, <1>8 DEF histVars
<1>9. ASSUME UNCHANGED <<content, used>> PROVE Contents'
  BY <1>1, <1>9
<1> HIDE DEF Files, Loads, Others, Contents
<1>10. ASSUME NEW i \in Image, AddImage(i) PROVE TypeOK'
  <2>1. used \subseteq used'
    BY <1>10 DEF AddImage
  <2>2. Files' /\ Contents' /\ Others' /\ Loads'
    BY <1>1, <1>7, <1>10, <2>1 DEF AddImage, Files, Contents, Others, Loads, LoadInUse, IsFile, fileVars, slotVars
  <2> QED BY <1>2, <2>2
<1>11. ASSUME NEW p \in Reloader, OpenMain(p) PROVE TypeOK'
  <2>1. main \in SUBSET used
    BY <1>1 DEF Files
  <2>2. Loads'
    BY <1>4, <1>11, <2>1, LoadInUseMakes DEF OpenMain, histVars
  <2> QED BY <1>2, <1>6, <1>8, <1>9, <1>11, <2>2 DEF OpenMain, histVars, slotVars
<1>12. ASSUME NEW p \in Reloader, OpenShard(p) PROVE TypeOK'
  <2>1. load[p].got \cup shard[load[p].at] \in SUBSET used /\ load[p].at \in Shards
    BY <1>1, <1>12 DEF OpenShard, Files, Loads, LoadInUse, IsFile
  <2>2. Loads'
    BY <1>4, <1>12, <2>1, LoadInUseMakes DEF OpenShard, histVars
  <2> QED BY <1>2, <1>6, <1>8, <1>9, <1>12, <2>2 DEF OpenShard, histVars, slotVars
<1>13. ASSUME NEW p \in Reloader, OpenEnd(p) PROVE TypeOK'
  <2>1. load[p].got \in SUBSET used
    BY <1>1 DEF Loads, LoadInUse
  <2>2. Loads'
    BY <1>4, <1>13, <2>1, LoadInUseMakes DEF OpenEnd, histVars
  <2> QED BY <1>2, <1>6, <1>8, <1>9, <1>13, <2>2 DEF OpenEnd, histVars, slotVars
<1>14. ASSUME NEW p \in Reloader, OpenFails(p) PROVE TypeOK'
  <2>1. Loads'
    BY <1>4, <1>14, LoadInUseMakes DEF OpenFails, histVars
  <2>2. \A d \in Deleter : req'[d] \subseteq req[d]
    BY <1>14 DEF OpenFails, NoImage
  <2>3. Others'
    BY <1>1, <1>7, <1>14, <2>2 DEF OpenFails, Others, histVars
  <2> QED BY <1>2, <1>6, <1>9, <1>14, <2>1, <2>3 DEF OpenFails, histVars, slotVars
<1>15. ASSUME NEW p \in Reloader, Swap(p) PROVE TypeOK'
  <2>1. Loads'
    BY <1>4, <1>15, LoadInUseMakes DEF Swap, Reloaded
  <2>2. Files'
    BY <1>6, <1>15 DEF Swap
  <2>3. Contents'
    BY <1>1, <1>15 DEF Swap, Contents, Loads, LoadInUse, Typed
  <2>4. Others'
    <3>1. CASE p = Builder
      BY <1>1, <1>3, <1>7, <1>15, <3>1 DEF Swap, Reloaded, Others
    <3>2. CASE p # Builder
      <4>1. p \in Deleter
        BY <3>2 DEF Reloader
      <4>2. \A d \in Deleter : req'[d] \subseteq req[d]
        BY <1>15, <3>2 DEF Swap, Reloaded, NoImage, Typed
      <4>3. told' = told \cup req[p] /\ shown' = shown /\ UNCHANGED <<used, purged, raced>>
        BY <1>15, <3>2 DEF Swap, Reloaded
      <4> QED BY <1>1, <1>7, <4>1, <4>2, <4>3 DEF Others
    <3> QED BY <3>1, <3>2
  <2> QED BY <1>2, <2>1, <2>2, <2>3, <2>4
<1>16. ASSUME NEW s \in Slot, Close(s) PROVE TypeOK'
  <2>1. Contents'
    BY <1>1, <1>16 DEF Close, Contents, Typed, histVars
  <2> QED BY <1>2, <1>5, <1>6, <1>8, <1>16, <2>1 DEF Close, histVars
<1>17. CASE Build
  <2>1. Loads'
    BY <1>4, <1>17, LoadInUseMakes DEF Build, Reloader
  <2>2. \A f \in Shards : shard'[f] = shard[f] \/ shard'[f] = waiting
    BY <1>17 DEF Build, Typed
  <2>3. Files'
    BY <1>1, <1>17, <2>2 DEF Build, Files, IsFile
  <2>4. Others'
    BY <1>1, <1>7, <1>17 DEF Build, Others, Files
  <2> QED BY <1>2, <1>9, <1>17, <2>1, <2>3, <2>4 DEF Build, slotVars
<1>18. CASE CompactSkip \/ CompactFails \/ CompactLoad
  <2>1. Files'
    BY <1>1, <1>3, <1>18 DEF CompactSkip, CompactFails, CompactLoad, Files, IsFile, fileVars, histVars
  <2> QED BY <1>2, <1>5, <1>8, <1>9, <1>18, <2>1 DEF CompactSkip, CompactFails, CompactLoad, histVars, slotVars
<1>19. CASE CompactRename
  <2>1. Files' /\ Others'
    BY <1>1, <1>3, <1>7, <1>19 DEF CompactRename, Files, Others, IsFile
  <2> QED BY <1>2, <1>5, <1>9, <1>19, <2>1 DEF CompactRename, slotVars
<1>20. CASE CompactRemove
  <2>1. Files'
    BY <1>1, <1>20 DEF CompactRemove, Files, IsFile, Typed, histVars
  <2> QED BY <1>2, <1>5, <1>8, <1>9, <1>20, <2>1 DEF CompactRemove, histVars, slotVars
<1>21. CASE CompactEnd
  <2>1. Loads'
    BY <1>4, <1>21, LoadInUseMakes DEF CompactEnd, Reloader, histVars
  <2> QED BY <1>2, <1>6, <1>8, <1>9, <1>21, <2>1 DEF CompactEnd, histVars, slotVars
<1>22. ASSUME NEW d \in Deleter, NEW i \in Image, Delete(d, i) PROVE TypeOK'
  <2>1. Loads'
    BY <1>4, <1>22, LoadInUseMakes DEF Delete, Reloader
  <2>2. \A f \in Shards : shard'[f] = Without(shard[f], i)
    BY <1>22 DEF Delete
  <2>3. Files'
    BY <1>1, <1>22, <2>2 DEF Delete, Files, IsFile, Without
  <2>4. \A e \in Deleter : req'[e] \subseteq req[e] \cup {i}
    BY <1>22 DEF Delete, Typed
  <2>5. Others'
    BY <1>1, <1>7, <1>22, <2>4 DEF Delete, Others
  <2> QED BY <1>2, <1>9, <1>22, <2>1, <2>3, <2>5 DEF Delete, slotVars
<1>23. CASE UNCHANGED vars
  BY <1>2, <1>5, <1>6, <1>8, <1>9, <1>23 DEF vars, histVars, slotVars
<1> QED
  BY <1>10, <1>11, <1>12, <1>13, <1>14, <1>15, <1>16, <1>17, <1>18, <1>19, <1>20,
     <1>21, <1>22, <1>23 DEF Next, ReloadStep

\* Every variable stays in its range.
THEOREM AlwaysTypeOK == Spec => []TypeOK
<1>1. IInv => Typed
  BY DEF IInv
<1> QED BY <1>1, AlwaysIInv, TypeOKInit, TypeOKStep, PTL DEF Spec
-----------------------------------------------------------------------------
(* The scheduler.                                                          *)

\* A build that has stopped reading and flushing holds no rows.
BatchOnlyWhileBuilding ==
    \A g \in Goroutine : phase[g] \notin {"read", "flush"} => batch[g] = {}

\* NoLostWakeup is inductive together with the facts that one goroutine builds
\* at a time, exactly while the flag is set, that it drops its batch when it
\* leaves, and that only images that have been added are unindexed.
UnindexedIsAdded == \A i \in unindexed : added[i] # "no"

Scheduled ==
    /\ SchedulerTypeOK
    /\ UnindexedIsAdded
    /\ OneBuild
    /\ BuildingIsRunning
    /\ BatchOnlyWhileBuilding
    /\ NoLostWakeup

LEMMA InitScheduled == SchedulerInit => Scheduled
<1> SUFFICES ASSUME SchedulerInit PROVE Scheduled
  OBVIOUS
<1>1. \A g \in Goroutine : phase[g] = "idle" /\ batch[g] = {}
  BY DEF SchedulerInit
<1>2. SchedulerTypeOK
  <2>1. phase \in [Goroutine -> Phase] /\ batch \in [Goroutine -> SUBSET NewImage]
        /\ added \in [NewImage -> {"no", "committed", "scheduled"}]
    BY DEF SchedulerInit, Phase
  <2> QED BY <2>1 DEF SchedulerInit, SchedulerTypeOK
<1>3. OneBuild /\ BuildingIsRunning /\ BatchOnlyWhileBuilding
  BY <1>1 DEF SchedulerInit, OneBuild, BuildingIsRunning,
              BatchOnlyWhileBuilding, Running
<1>4. NoLostWakeup /\ UnindexedIsAdded
  BY DEF SchedulerInit, NoLostWakeup, UnindexedIsAdded
<1> QED BY <1>2, <1>3, <1>4 DEF Scheduled

-----------------------------------------------------------------------------
(* Types.                                                                  *)

LEMMA NextTypeOK == SchedulerTypeOK /\ [SchedulerNext]_schedulerVars => SchedulerTypeOK'
<1> SUFFICES ASSUME SchedulerTypeOK, [SchedulerNext]_schedulerVars PROVE SchedulerTypeOK'
  OBVIOUS
<1> USE DEF SchedulerTypeOK, Phase, searcherVars
<1>1. ASSUME NEW i \in NewImage, CommitImage(i) PROVE SchedulerTypeOK'
  BY <1>1 DEF CommitImage, timerVars, buildVars, bounded
<1>2. ASSUME NEW i \in NewImage, ScheduleBuild(i) PROVE SchedulerTypeOK'
  <2>1. added' \in [NewImage -> {"no", "committed", "scheduled"}]
    BY <1>2 DEF ScheduleBuild
  <2>2. pendingRebuild' \in BOOLEAN /\ timer' \in {"none", "armed", "fired"}
    BY <1>2 DEF ScheduleBuild
  <2> QED BY <1>2, <2>1, <2>2
          DEF ScheduleBuild, timerVars, buildVars, bounded
<1>3. CASE PostBuild
  BY <1>3 DEF PostBuild, timerVars, buildVars, bounded
<1>4. CASE TimerExpires
  BY <1>4 DEF TimerExpires, timerVars, buildVars, bounded
<1>5. CASE TimerCallback
  BY <1>5 DEF TimerCallback, timerVars, buildVars, bounded
<1>6. CASE StartBuildBusy
  BY <1>6 DEF StartBuildBusy, timerVars, buildVars, bounded
<1>7. ASSUME NEW g \in Goroutine, BuildStep(g) PROVE SchedulerTypeOK'
  <2>1. CASE StartBuild(g)
    <3>1. phase' \in [Goroutine -> Phase]
      BY <2>1 DEF StartBuild
    <3>2. starting' \in Nat
      BY <2>1 DEF StartBuild
    <3> QED BY <2>1, <3>1, <3>2 DEF StartBuild, timerVars, buildVars,
                                    bounded
  <2>2. CASE ReadRows(g)
    BY <2>2 DEF ReadRows, timerVars, buildVars, bounded
  <2>3. CASE FlushBatch(g)
    BY <2>3 DEF FlushBatch, timerVars, buildVars, bounded
  <2>4. CASE ReadEnd(g)
    BY <2>4 DEF ReadEnd, timerVars, buildVars, bounded
  <2>5. CASE LastFlush(g)
    BY <2>5 DEF LastFlush, timerVars, buildVars, bounded
  <2>6. CASE CommitIndex(g)
    BY <2>6 DEF CommitIndex, timerVars, bounded
  <2>7. CASE Reload(g) \/ Compact(g)
    <3>1. phase' \in [Goroutine -> Phase]
      BY <2>7 DEF Reload, Compact
    <3>2. served' \subseteq NewImage /\ failures' \in Nat
      BY <2>7 DEF Reload, Compact, OpenIndex, Indexed
    <3> QED BY <2>7, <3>1, <3>2 DEF Reload, Compact, timerVars
  <2>8. CASE Finish(g)
    <3>1. phase' \in [Goroutine -> Phase]
      BY <2>8 DEF Finish
    <3>2. starting' \in Nat
      BY <2>8 DEF Finish
    <3> QED BY <2>8, <3>1, <3>2 DEF Finish, timerVars, buildVars,
                                    bounded
  <2> QED BY <1>7, <2>1, <2>2, <2>3, <2>4, <2>5, <2>6, <2>7, <2>8 DEF BuildStep
<1>8. ASSUME NEW g \in Goroutine, BuildFails(g) PROVE SchedulerTypeOK'
  BY <1>8 DEF BuildFails, timerVars, buildVars, bounded
<1>9. CASE Shutdown
  BY <1>9 DEF Shutdown, timerVars, buildVars, bounded
<1>10. CASE Restart
  <2>1. \A i \in NewImage : added'[i] \in {"no", "committed", "scheduled"}
    BY <1>10 DEF Restart
  <2>2. added' \in [NewImage -> {"no", "committed", "scheduled"}]
    BY <1>10, <2>1 DEF Restart
  <2>3. served' \subseteq NewImage /\ forgotten' \subseteq NewImage
        /\ stranded' \subseteq NewImage
    BY <1>10 DEF Restart, Indexed
  <2>4. phase' \in [Goroutine -> Phase] /\ batch' \in [Goroutine -> SUBSET NewImage]
    BY <1>10 DEF Restart
  <2>5. restarts' \in Nat
    BY <1>10 DEF Restart
  <2> QED BY <1>10, <2>2, <2>3, <2>4, <2>5 DEF Restart
<1>11. CASE UNCHANGED schedulerVars
  BY <1>11 DEF schedulerVars, timerVars, buildVars, bounded
<1> QED BY <1>1, <1>2, <1>3, <1>4, <1>5, <1>6, <1>7, <1>8, <1>9, <1>10, <1>11
        DEF SchedulerNext

-----------------------------------------------------------------------------
(* One build at a time.                                                    *)

\* A step that leaves the flag and the set of running goroutines alone keeps
\* the two properties about them.
LEMMA SameRunning ==
    ASSUME OneBuild, BuildingIsRunning, building' = building,
           \A g \in Goroutine : phase'[g] = "idle" <=> phase[g] = "idle"
    PROVE  OneBuild' /\ BuildingIsRunning'
BY DEF OneBuild, BuildingIsRunning, Running

LEMMA NextOneBuild ==
    SchedulerTypeOK /\ OneBuild /\ BuildingIsRunning /\ [SchedulerNext]_schedulerVars
        => OneBuild' /\ BuildingIsRunning'
<1> SUFFICES ASSUME SchedulerTypeOK, OneBuild, BuildingIsRunning,
[SchedulerNext]_schedulerVars
             PROVE  OneBuild' /\ BuildingIsRunning'
  OBVIOUS
<1>1. ASSUME NEW g \in Goroutine, StartBuild(g)
      PROVE  OneBuild' /\ BuildingIsRunning'
  BY <1>1 DEF StartBuild, SchedulerTypeOK, OneBuild, BuildingIsRunning,
              Running
<1>2. ASSUME NEW g \in Goroutine, Finish(g)
      PROVE  OneBuild' /\ BuildingIsRunning'
  BY <1>2 DEF Finish, SchedulerTypeOK, OneBuild, BuildingIsRunning,
              Running
<1>3. ASSUME NEW g \in Goroutine,
             \/ ReadRows(g) \/ FlushBatch(g) \/ ReadEnd(g) \/ LastFlush(g)
             \/ CommitIndex(g) \/ Reload(g) \/ Compact(g) \/ BuildFails(g)
      PROVE  OneBuild' /\ BuildingIsRunning'
  <2>1. /\ building' = building
        /\ \A h \in Goroutine : phase'[h] = "idle" <=> phase[h] = "idle"
    BY <1>3 DEF ReadRows, FlushBatch, ReadEnd, LastFlush,
                CommitIndex, Reload, Compact,
                BuildFails, SchedulerTypeOK
  <2> QED BY <2>1, SameRunning
<1>4. ASSUME Restart
      PROVE  OneBuild' /\ BuildingIsRunning'
  BY <1>4 DEF Restart, OneBuild, BuildingIsRunning, Running
<1>5. ASSUME building' = building, phase' = phase
      PROVE  OneBuild' /\ BuildingIsRunning'
  BY <1>5, SameRunning
<1>6. CASE SchedulerNext
  BY <1>1, <1>2, <1>3, <1>4, <1>5, <1>6
     DEF SchedulerNext, BuildStep, CommitImage, ScheduleBuild,
         PostBuild, TimerExpires,
         TimerCallback, StartBuildBusy, Shutdown, buildVars
<1> QED BY <1>5, <1>6 DEF schedulerVars, buildVars

LEMMA NextBatch ==
    SchedulerTypeOK /\ BatchOnlyWhileBuilding /\ [SchedulerNext]_schedulerVars => BatchOnlyWhileBuilding'
<1> SUFFICES ASSUME SchedulerTypeOK, BatchOnlyWhileBuilding, [SchedulerNext]_schedulerVars
             PROVE  BatchOnlyWhileBuilding'
  OBVIOUS
<1> USE DEF SchedulerTypeOK, BatchOnlyWhileBuilding
<1>1. ASSUME NEW g \in Goroutine, BuildStep(g) \/ BuildFails(g)
      PROVE  BatchOnlyWhileBuilding'
  BY <1>1 DEF BuildStep, StartBuild, ReadRows, FlushBatch,
              ReadEnd, LastFlush,
              CommitIndex, Reload, Compact, Finish, BuildFails
<1>2. CASE Restart
  BY <1>2 DEF Restart
<1>3. ASSUME phase' = phase, batch' = batch
      PROVE  BatchOnlyWhileBuilding'
  BY <1>3
<1>4. CASE SchedulerNext
  BY <1>1, <1>2, <1>3, <1>4
     DEF SchedulerNext, CommitImage, ScheduleBuild, PostBuild,
         TimerExpires,
         TimerCallback, StartBuildBusy, Shutdown, buildVars
<1> QED BY <1>3, <1>4 DEF schedulerVars, buildVars

LEMMA NextUnindexedIsAdded ==
    SchedulerTypeOK /\ UnindexedIsAdded /\ [SchedulerNext]_schedulerVars => UnindexedIsAdded'
<1> SUFFICES ASSUME SchedulerTypeOK, UnindexedIsAdded, [SchedulerNext]_schedulerVars,
                    NEW i \in unindexed'
             PROVE  added'[i] # "no"
  BY DEF UnindexedIsAdded
<1> USE DEF SchedulerTypeOK, UnindexedIsAdded
<1>1. ASSUME NEW j \in NewImage, CommitImage(j) \/ ScheduleBuild(j)
      PROVE  added'[i] # "no"
  BY <1>1 DEF CommitImage, ScheduleBuild
<1>2. CASE Restart
  BY <1>2 DEF Restart
<1>3. ASSUME added' = added, unindexed' \subseteq unindexed
      PROVE  added'[i] # "no"
  BY <1>3
<1>4. CASE SchedulerNext
  BY <1>1, <1>2, <1>3, <1>4
     DEF SchedulerNext, PostBuild, TimerExpires, TimerCallback,
         StartBuildBusy,
         BuildStep, StartBuild, ReadRows, FlushBatch,
         ReadEnd, LastFlush,
         CommitIndex, Reload, Compact, Finish, BuildFails, Shutdown
<1> QED BY <1>3, <1>4 DEF schedulerVars

-----------------------------------------------------------------------------
(* No wake-up is lost.                                                     *)

\* Why image i need not worry.
Awaited(i) ==
    \/ added[i] = "committed"
    \/ building /\ (pendingRebuild \/ InHand(i))
    \/ ~building /\ (timer = "armed" \/ stray + firing + starting > 0)

LEMMA NextNoLostWakeup == Scheduled /\ SchedulerTypeOK' /\ [SchedulerNext]_schedulerVars => NoLostWakeup'
<1> SUFFICES ASSUME Scheduled, SchedulerTypeOK', [SchedulerNext]_schedulerVars,
                    NEW i \in unindexed' \ forgotten'
             PROVE  Awaited(i)'
  BY DEF NoLostWakeup, Awaited
<1>0. /\ SchedulerTypeOK
      /\ i \in NewImage
      /\ i \in unindexed \ forgotten => Awaited(i)
  BY DEF Scheduled, SchedulerTypeOK, NoLostWakeup, Awaited
<1> USE DEF Awaited
<1>1. ASSUME NEW j \in NewImage, CommitImage(j) PROVE Awaited(i)'
  BY <1>0, <1>1 DEF CommitImage, SchedulerTypeOK, InHand, timerVars,
                    buildVars
<1>2. ASSUME NEW j \in NewImage, ScheduleBuild(j) PROVE Awaited(i)'
  BY <1>0, <1>2 DEF ScheduleBuild, SchedulerTypeOK, InHand, timerVars,
                    buildVars
<1>3. CASE PostBuild
  BY <1>0, <1>3 DEF PostBuild, SchedulerTypeOK, InHand, timerVars,
                    buildVars
<1>4. CASE TimerExpires
  <2>1. stray' + firing' + starting' > 0
    <3>1. CASE firing' = firing + 1 /\ stray' = stray
      BY <1>0, <1>4, <3>1 DEF TimerExpires, SchedulerTypeOK
    <3>2. CASE firing' = firing + 1 /\ stray' = stray - 1 /\ stray > 0
      BY <1>0, <1>4, <3>2 DEF TimerExpires, SchedulerTypeOK
    <3> QED BY <1>4, <3>1, <3>2 DEF TimerExpires
  <2>2. CASE building
    <3>1. /\ building' = building /\ pendingRebuild' = pendingRebuild
          /\ added' = added /\ phase' = phase /\ batch' = batch
          /\ unindexed' = unindexed /\ forgotten' = forgotten
      BY <1>4 DEF TimerExpires, buildVars
    <3>2. added[i] = "committed" \/ pendingRebuild \/ InHand(i)
      BY <1>0, <2>2, <3>1
    <3> QED BY <2>2, <3>1, <3>2 DEF InHand
  <2>3. CASE ~building
    BY <1>4, <2>1, <2>3 DEF TimerExpires
  <2> QED BY <2>2, <2>3
<1>5. CASE TimerCallback
  BY <1>0, <1>5 DEF TimerCallback, SchedulerTypeOK, InHand, timerVars,
                    buildVars
<1>6. CASE StartBuildBusy
  BY <1>0, <1>6 DEF StartBuildBusy, SchedulerTypeOK, InHand, timerVars,
                    buildVars
<1>7. ASSUME NEW g \in Goroutine, BuildStep(g) PROVE Awaited(i)'
  <2>1. CASE StartBuild(g)
    BY <1>0, <2>1 DEF StartBuild, SchedulerTypeOK, InHand, timerVars
  <2>2. CASE ReadRows(g)
    BY <1>0, <2>2 DEF ReadRows, SchedulerTypeOK, InHand, timerVars
  <2>3. CASE FlushBatch(g)
    BY <1>0, <2>3 DEF FlushBatch, SchedulerTypeOK, InHand, timerVars
  <2>4. CASE ReadEnd(g)
    BY <1>0, <2>4 DEF ReadEnd, SchedulerTypeOK, InHand, timerVars
  <2>5. CASE LastFlush(g)
    BY <1>0, <2>5 DEF LastFlush, SchedulerTypeOK, InHand, timerVars
  <2>6. CASE CommitIndex(g)
    BY <1>0, <2>6 DEF CommitIndex, SchedulerTypeOK, InHand, timerVars
  <2>7. CASE Reload(g) \/ Compact(g)
    BY <1>0, <2>7 DEF Reload, Compact, SchedulerTypeOK, InHand, timerVars
  <2>8. CASE Finish(g)
    <3>1. building /\ ~InHand(i)
      BY <2>8 DEF Finish, Scheduled, OneBuild, BuildingIsRunning,
                  Running,
                  BatchOnlyWhileBuilding, InHand
    <3>2. added[i] = "committed" \/ pendingRebuild
      BY <1>0, <2>8, <3>1 DEF Finish
    <3> QED BY <1>0, <2>8, <3>2 DEF Finish, SchedulerTypeOK, timerVars
  <2> QED BY <1>7, <2>1, <2>2, <2>3, <2>4, <2>5, <2>6, <2>7, <2>8 DEF BuildStep
<1>8. ASSUME NEW g \in Goroutine, BuildFails(g) PROVE Awaited(i)'
  <2>1. building
    BY <1>8 DEF BuildFails, Scheduled, BuildingIsRunning, Running
  <2>2. CASE pendingRebuild
    BY <1>8, <2>1, <2>2 DEF BuildFails
  <2>3. CASE ~pendingRebuild
    <3>1. added[i] # "scheduled"
      BY <1>8, <2>3 DEF BuildFails
    <3>2. added[i] = "committed"
      BY <1>0, <1>8, <3>1 DEF BuildFails, Scheduled, UnindexedIsAdded, SchedulerTypeOK
    <3> QED BY <1>8, <3>2 DEF BuildFails
  <2> QED BY <2>2, <2>3
<1>9. CASE Shutdown
  <2>1. added[i] = "committed"
    BY <1>0, <1>9 DEF Shutdown, Scheduled, UnindexedIsAdded, SchedulerTypeOK
  <2> QED BY <1>9, <2>1 DEF Shutdown
<1>10. CASE Restart
  BY <1>10 DEF Restart
<1>11. CASE UNCHANGED schedulerVars
  BY <1>0, <1>11 DEF schedulerVars, InHand, timerVars, buildVars
<1> QED BY <1>1, <1>2, <1>3, <1>4, <1>5, <1>6, <1>7, <1>8, <1>9, <1>10, <1>11
        DEF SchedulerNext

-----------------------------------------------------------------------------
(* The theorems.                                                           *)

\* The inductive invariant holds in every reachable state.
THEOREM AlwaysScheduled == SchedulerSpec => []Scheduled
<1>1. Scheduled /\ [SchedulerNext]_schedulerVars => Scheduled'
  BY NextTypeOK, NextUnindexedIsAdded, NextOneBuild, NextBatch,
     NextNoLostWakeup DEF Scheduled
<1> QED BY InitScheduled, <1>1, PTL DEF SchedulerSpec

\* The state keeps its shape; no count of timers or goroutines goes negative.
THEOREM AlwaysSchedulerTypeOK == SchedulerSpec => []SchedulerTypeOK
<1>1. Scheduled => SchedulerTypeOK
  BY DEF Scheduled
<1> QED BY <1>1, AlwaysScheduled, PTL

\* Two builds never run at once, and the flag is set exactly while one runs.
THEOREM OneBuildAtATime == SchedulerSpec => [](OneBuild /\ BuildingIsRunning)
<1>1. Scheduled => OneBuild /\ BuildingIsRunning
  BY DEF Scheduled
<1> QED BY <1>1, AlwaysScheduled, PTL

\* An image that is not indexed has a build coming, unless its request died
\* with a failed build, a shutdown or a restart.
THEOREM NoWakeupIsLost == SchedulerSpec => []NoLostWakeup
<1>1. Scheduled => NoLostWakeup
  BY DEF Scheduled
<1> QED BY <1>1, AlwaysScheduled, PTL
=============================================================================
