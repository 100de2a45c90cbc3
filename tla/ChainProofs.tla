----------------------------- MODULE ChainProofs -----------------------------
(***************************************************************************)
(* Proofs about OptionChains, for any callers, underlyings and editions of *)
(* the scrip master, and any failures, cancellations and restarts; and     *)
(* about Advice: what is recommended, and which contract is picked from a  *)
(* chain, for any levels, chains, modes and days.                          *)
(***************************************************************************)
EXTENDS OptionChains, Advice, SumTheorems, TLAPS

EditionNumbers == 0..Len(Editions)

ChainsTyped ==
    /\ now \in Nat
    /\ published \in EditionNumbers \ {0}
    /\ file.edition \in EditionNumbers
    /\ rows \in EditionNumbers
    /\ loads \in [Callers -> {"idle", "queued", "downloading"}]
    /\ loadLock \in Seq(Callers)
    /\ chains = [u \in Underlyings |-> chains[u]]

\* Who downloads is first in the queue for the lock, and nothing has been
\* downloaded yet.
DownloaderIsFirst ==
    \A c \in Callers : loads[c] = "downloading" =>
      loadLock # <<>> /\ Head(loadLock) = c /\ rows = 0

\* In one process there is one edition: the one in memory.
OneEdition ==
    /\ downloads \in {0, 1} /\ (rows = 0 => downloads = 0)
    /\ index \in {0, rows}
    /\ \A u \in Underlyings : chains[u].edition \in {0, rows}

\* The inductive invariant.
CInv == ChainsTyped /\ DownloaderIsFirst /\ OneEdition

-----------------------------------------------------------------------------
(***************************************************************************)
(* The queue of the lock.                                                  *)
(***************************************************************************)
\* Who leaves the queue does not overtake the first in it.
LEMMA WithoutKeepsFirst ==
  ASSUME NEW q \in Seq(Callers), NEW c
  PROVE  /\ Without(q, c) \in Seq(Callers)
         /\ q # <<>> /\ Head(q) # c => Without(q, c) # <<>> /\ Head(Without(q, c)) = Head(q)
<1>1. CASE ~\E i \in 1..Len(q) : q[i] = c
  BY <1>1 DEF Without
<1>2. CASE \E i \in 1..Len(q) : q[i] = c
  <2> DEFINE place == CHOOSE i \in 1..Len(q) : q[i] = c
             before == SubSeq(q, 1, place - 1)
             after == SubSeq(q, place + 1, Len(q))
  <2>1. place \in 1..Len(q) /\ q[place] = c
    BY <1>2
  <2>2. Without(q, c) = before \o after
    BY <1>2 DEF Without
  <2> HIDE DEF place
  <2>3. /\ before \in Seq(Callers) /\ after \in Seq(Callers)
        /\ Len(before) = place - 1
        /\ \A i \in 1..place - 1 : before[i] = q[i]
    BY <2>1
  <2>4. ASSUME q # <<>>, Head(q) # c
        PROVE  place > 1
    BY <2>1, <2>4
  <2> HIDE DEF before, after
  <2>5. ASSUME place > 1
        PROVE  before \o after # <<>> /\ Head(before \o after) = Head(q)
    BY <2>1, <2>3, <2>5
  <2> QED  BY <2>2, <2>3, <2>4, <2>5
<1> QED  BY <1>1, <1>2

LEMMA AppendKeepsFirst ==
  ASSUME NEW q \in Seq(Callers), NEW c \in Callers
  PROVE  /\ Append(q, c) \in Seq(Callers)
         /\ q # <<>> => Append(q, c) # <<>> /\ Head(Append(q, c)) = Head(q)
OBVIOUS

-----------------------------------------------------------------------------
(***************************************************************************)
(* What is made of the rows.                                               *)
(***************************************************************************)
\* What is cached from the rows in memory is of their edition.
LEMMA CachesOneEdition ==
  ASSUME OneEdition, ChainsTyped, NEW ask, NEW edition, Caches(ask, edition),
         rows' = rows \/ (rows = 0),
         edition = rows' \/ (ask.op = "resolve" /\ edition = index),
         downloads' \in {0, 1}, rows' = 0 => downloads' = 0
  PROVE  /\ OneEdition'
         /\ (chains = [u \in Underlyings |-> chains[u]])'
<1>1. index' \in {0, rows'}
  BY DEF Caches, OneEdition
<1>2. /\ (chains = [u \in Underlyings |-> chains[u]])'
      /\ \A u \in Underlyings : chains'[u].edition \in {0, rows'}
  <2>1. CASE UNCHANGED chains
    BY <2>1 DEF OneEdition, ChainsTyped
  <2>2. CASE /\ ask.op # "resolve"
             /\ chains' = [chains EXCEPT ![ask.underlying] = [edition |-> edition, at |-> now]]
    <3>1. \A u \in Underlyings :
            chains'[u] = IF u = ask.underlying THEN [edition |-> edition, at |-> now]
                         ELSE chains[u]
      BY <2>2 DEF ChainsTyped
    <3>2. chains' = [u \in Underlyings |-> chains'[u]]
      BY <2>2 DEF ChainsTyped
    <3> QED  BY <2>2, <3>1, <3>2 DEF OneEdition
  <2> QED  BY <2>1, <2>2 DEF Caches, ChainOps
<1> QED  BY <1>1, <1>2 DEF OneEdition

\* A call that is over leaves the lock to the next.
LEMMA LoadOverKeepsFirst ==
  ASSUME CInv, NEW c \in Callers, LoadOver(c),
         rows' = rows \/ \A d \in Callers \ {c} : loads[d] # "downloading"
  PROVE  /\ loads' \in [Callers -> {"idle", "queued", "downloading"}]
         /\ loadLock' \in Seq(Callers)
         /\ DownloaderIsFirst'
<1>1. /\ loads' = [loads EXCEPT ![c] = "idle"]
      /\ loadLock' = Without(loadLock, c)
      /\ loads \in [Callers -> {"idle", "queued", "downloading"}]
      /\ loadLock \in Seq(Callers)
  BY DEF LoadOver, UnlocksLoad, CInv, ChainsTyped
<1>2. /\ loadLock' \in Seq(Callers)
      /\ loadLock # <<>> /\ Head(loadLock) # c => loadLock' # <<>> /\ Head(loadLock') = Head(loadLock)
  BY <1>1, WithoutKeepsFirst
<1>3. loads' \in [Callers -> {"idle", "queued", "downloading"}]
  BY <1>1
<1>4. DownloaderIsFirst'
  BY <1>1, <1>2 DEF CInv, DownloaderIsFirst
<1> QED  BY <1>2, <1>3, <1>4

LEMMA WaitsForRowsKeepsFirst ==
  ASSUME CInv, NEW c \in Callers, WaitsForRows(c), rows' = rows
  PROVE  /\ loads' \in [Callers -> {"idle", "queued", "downloading"}]
         /\ loadLock' \in Seq(Callers)
         /\ DownloaderIsFirst'
<1>1. /\ loads' = [loads EXCEPT ![c] = "queued"]
      /\ loadLock' = Append(loadLock, c)
      /\ loads \in [Callers -> {"idle", "queued", "downloading"}]
      /\ loadLock \in Seq(Callers)
  BY DEF WaitsForRows, CInv, ChainsTyped
<1>2. /\ loadLock' \in Seq(Callers)
      /\ loadLock # <<>> => loadLock' # <<>> /\ Head(loadLock') = Head(loadLock)
  BY <1>1, AppendKeepsFirst
<1>3. loads' \in [Callers -> {"idle", "queued", "downloading"}]
  BY <1>1
<1>4. DownloaderIsFirst'
  BY <1>1, <1>2 DEF CInv, DownloaderIsFirst
<1> QED  BY <1>2, <1>3, <1>4

-----------------------------------------------------------------------------
(***************************************************************************)
(* The steps.                                                              *)
(***************************************************************************)
\* Whatever a step does to the caches, the rows stay.
LEMMA RowsStay ==
  ASSUME CInv, UNCHANGED <<diskVars, rows, downloads>>,
         loads' \in [Callers -> {"idle", "queued", "downloading"}],
         loadLock' \in Seq(Callers), DownloaderIsFirst',
         \/ UNCHANGED <<index, chains>>
         \/ \E ask, edition : /\ Caches(ask, edition)
                              /\ edition = rows \/ (ask.op = "resolve" /\ edition = index)
  PROVE  CInv'
<1>1. /\ ChainsTyped /\ OneEdition /\ rows' = rows
      /\ downloads' \in {0, 1} /\ (rows' = 0 => downloads' = 0)
  BY DEF CInv, OneEdition
<1>2. OneEdition' /\ (chains = [u \in Underlyings |-> chains[u]])'
  <2>1. CASE UNCHANGED <<index, chains>>
    BY <1>1, <2>1 DEF OneEdition, ChainsTyped
  <2>2. ASSUME NEW ask, NEW edition, Caches(ask, edition),
               edition = rows \/ (ask.op = "resolve" /\ edition = index)
        PROVE  OneEdition' /\ (chains = [u \in Underlyings |-> chains[u]])'
    BY <1>1, <2>2, CachesOneEdition
  <2> QED  BY <2>1, <2>2
<1>3. ChainsTyped'
  BY <1>1, <1>2 DEF ChainsTyped, diskVars
<1> QED  BY <1>2, <1>3 DEF CInv

LEMMA CallsKeepsCInv ==
  ASSUME CInv, NEW c \in Callers, NEW ask \in Asks, Calls(c, ask)
  PROVE  CInv'
<1>1. UNCHANGED <<diskVars, rows, downloads>>
  BY DEF Calls
<1>2. CASE AnsweredAtOnce(ask)
  <2> DEFINE edition == IF ask.op = "resolve" THEN index ELSE rows
  <2>1. Caches(ask, edition) /\ UNCHANGED <<loads, loadLock>>
    BY <1>2 DEF Calls
  <2>2. edition = rows \/ (ask.op = "resolve" /\ edition = index)
    OBVIOUS
  <2> HIDE DEF edition
  <2>3. /\ loads' \in [Callers -> {"idle", "queued", "downloading"}]
        /\ loadLock' \in Seq(Callers) /\ DownloaderIsFirst'
    BY <1>1, <2>1 DEF CInv, ChainsTyped, DownloaderIsFirst
  <2> QED  BY <1>1, <2>1, <2>2, <2>3, RowsStay
<1>3. CASE ~AnsweredAtOnce(ask)
  <2>1. /\ UNCHANGED <<index, chains>>
        /\ WaitsForRows(c) \/ UNCHANGED <<loads, loadLock>>
    BY <1>3 DEF Calls
  <2>2. /\ loads' \in [Callers -> {"idle", "queued", "downloading"}]
        /\ loadLock' \in Seq(Callers) /\ DownloaderIsFirst'
    BY <1>1, <2>1, WaitsForRowsKeepsFirst DEF CInv, ChainsTyped, DownloaderIsFirst
  <2> QED  BY <1>1, <2>1, <2>2, RowsStay
<1> QED  BY <1>2, <1>3

LEMMA ChainLockGrantedKeepsCInv ==
  ASSUME CInv, NEW c \in Callers, ChainLockGranted(c)
  PROVE  CInv'
<1>1. /\ UNCHANGED <<diskVars, rows, downloads>>
      /\ \/ Caches(calls[c], rows) \/ UNCHANGED <<index, chains>>
      /\ WaitsForRows(c) \/ UNCHANGED <<loads, loadLock>>
  BY DEF ChainLockGranted
<1>2. /\ loads' \in [Callers -> {"idle", "queued", "downloading"}]
      /\ loadLock' \in Seq(Callers) /\ DownloaderIsFirst'
  BY <1>1, WaitsForRowsKeepsFirst DEF CInv, ChainsTyped, DownloaderIsFirst
<1> QED  BY <1>1, <1>2, RowsStay

LEMMA GivesUpKeepsCInv ==
  ASSUME CInv, NEW c \in Callers, GivesUp(c)
  PROVE  CInv'
<1>1. LoadOver(c) /\ UNCHANGED <<diskVars, rows, downloads, index, chains>>
  BY DEF GivesUp
<1> QED  BY <1>1, LoadOverKeepsFirst, RowsStay

LEMMA BeginsDownloadKeepsCInv ==
  ASSUME CInv, NEW c \in Callers, BeginsDownload(c), UNCHANGED cacheVars
  PROVE  CInv'
<1>1. /\ UNCHANGED <<diskVars, rows, downloads, index, chains, loadLock>>
      /\ loads' = [loads EXCEPT ![c] = "downloading"]
      /\ loadLock # <<>> /\ Head(loadLock) = c /\ rows = 0
  BY DEF BeginsDownload, HoldsLoadLock, FoundEdition, InMemory, cacheVars
<1>2. /\ loads' \in [Callers -> {"idle", "queued", "downloading"}]
      /\ loadLock' \in Seq(Callers)
  BY <1>1 DEF CInv, ChainsTyped
<1>3. DownloaderIsFirst'
  BY <1>1 DEF CInv, DownloaderIsFirst, ChainsTyped
<1> QED  BY <1>1, <1>2, <1>3, RowsStay

\* Only the first in the queue brings rows, and only where there are none.
LEMMA RowsArriveKeepsCInv ==
  ASSUME CInv, NEW c \in Callers, RowsArrive(c)
  PROVE  CInv'
<1>1. Caches(calls[c], rows') /\ LoadOver(c) /\ UNCHANGED <<now, published>>
  BY DEF RowsArrive, FindsRows, Downloaded, diskVars
<1>2. /\ rows' \in EditionNumbers \ {0}
      /\ rows' = rows \/ rows = 0
      /\ downloads' \in {0, 1}
      /\ file'.edition \in EditionNumbers
      /\ \A d \in Callers \ {c} : loads[d] # "downloading"
  <2>1. CASE FindsRows(c)
    <3>1. /\ loads[c] = "queued" /\ Head(loadLock) = c
          /\ rows' = FoundEdition /\ FoundEdition # 0
          /\ UNCHANGED <<file, downloads>>
      BY <2>1 DEF FindsRows, HoldsLoadLock, diskVars
    <3>2. FoundEdition \in EditionNumbers /\ (rows = 0 \/ FoundEdition = rows)
      BY DEF FoundEdition, InMemory, CachedEdition, CInv, ChainsTyped, EditionNumbers
    <3> QED  BY <3>1, <3>2 DEF CInv, ChainsTyped, OneEdition, DownloaderIsFirst
  <2>2. CASE Downloaded(c)
    <3>1. /\ loads[c] = "downloading" /\ rows = 0 /\ Head(loadLock) = c
          /\ rows' = published /\ downloads' = downloads + 1 /\ downloads = 0
      BY <2>2 DEF Downloaded, CInv, DownloaderIsFirst, OneEdition
    <3>2. file' = file \/ file'.edition = published
      BY <2>2 DEF Downloaded
    <3> QED  BY <3>1, <3>2 DEF CInv, ChainsTyped, DownloaderIsFirst
  <2> QED  BY <2>1, <2>2 DEF RowsArrive
<1>3. /\ loads' \in [Callers -> {"idle", "queued", "downloading"}]
      /\ loadLock' \in Seq(Callers) /\ DownloaderIsFirst'
  BY <1>1, <1>2, LoadOverKeepsFirst
<1>4. OneEdition' /\ (chains = [u \in Underlyings |-> chains[u]])'
  <2>1. rows' # 0 /\ (rows' = 0 => downloads' = 0)
    BY <1>2
  <2> QED  BY <1>1, <1>2, <2>1, CachesOneEdition DEF CInv
<1>5. ChainsTyped'
  BY <1>1, <1>2, <1>3, <1>4 DEF CInv, ChainsTyped
<1> QED  BY <1>3, <1>4, <1>5 DEF CInv

LEMMA TimePassesKeepsCInv ==
  ASSUME CInv, TimePasses, UNCHANGED cacheVars
  PROVE  CInv'
<1>1. /\ now' = now + 1 /\ published' \in 1..Len(Editions)
      /\ UNCHANGED <<file, rows, index, loadLock, loads, downloads, chains>>
  BY DEF TimePasses, cacheVars
<1>2. published' \in EditionNumbers \ {0}
  BY <1>1, InstrumentMasterAssumption DEF EditionNumbers
<1> QED  BY <1>1, <1>2 DEF CInv, ChainsTyped, DownloaderIsFirst, OneEdition

\* A new process starts with nothing in memory.
LEMMA StartsEmpty ==
  ASSUME now \in Nat, published \in EditionNumbers \ {0}, file.edition \in EditionNumbers,
         rows = 0, index = 0, downloads = 0, loadLock = <<>>,
         loads = [c \in Callers |-> "idle"], chains = [u \in Underlyings |-> NoChain]
  PROVE  CInv
<1>1. 0 \in EditionNumbers
  BY InstrumentMasterAssumption DEF EditionNumbers
<1>2. ChainsTyped
  BY <1>1 DEF ChainsTyped
<1> QED  BY <1>2 DEF CInv, DownloaderIsFirst, OneEdition, NoChain

LEMMA RestartsKeepsCInv ==
  ASSUME CInv, Restarts
  PROVE  CInv'
<1>1. /\ UNCHANGED <<now, published>>
      /\ file' = file \/ file'.edition = published
      /\ rows' = 0 /\ index' = 0 /\ downloads' = 0 /\ loadLock' = <<>>
      /\ loads' = [c \in Callers |-> "idle"] /\ chains' = [u \in Underlyings |-> NoChain]
  BY DEF Restarts, MasterRestarts
<1>2. /\ now' \in Nat /\ published' \in EditionNumbers \ {0} /\ file'.edition \in EditionNumbers
  BY <1>1 DEF CInv, ChainsTyped
<1>3. 0 \in EditionNumbers /\ EditionNumbers' = EditionNumbers
  BY InstrumentMasterAssumption DEF EditionNumbers
<1>4. ChainsTyped'
  BY <1>1, <1>2, <1>3 DEF ChainsTyped
<1> QED  BY <1>1, <1>4 DEF CInv, DownloaderIsFirst, OneEdition, NoChain

LEMMA InitCInv ==
  ASSUME Init
  PROVE  CInv
<1>1. 0 \in EditionNumbers /\ 1 \in EditionNumbers
  BY InstrumentMasterAssumption DEF EditionNumbers
<1> QED  BY <1>1, StartsEmpty DEF Init, MasterInit, NoFile

LEMMA NextCInv ==
  ASSUME CInv, [Next]_allVars
  PROVE  CInv'
<1>1. ASSUME NEW c \in Callers, Proceeds(c)
      PROVE  CInv'
  BY <1>1, BeginsDownloadKeepsCInv, GivesUpKeepsCInv, ChainLockGrantedKeepsCInv,
     RowsArriveKeepsCInv DEF Proceeds, DownloadFails
<1>2. ASSUME NEW c \in Callers, Cancelled(c)
      PROVE  CInv'
  BY <1>2, GivesUpKeepsCInv DEF Cancelled
<1>3. CASE UNCHANGED allVars
  BY <1>3 DEF allVars, masterVars, diskVars, cacheVars, CInv, ChainsTyped, DownloaderIsFirst,
     OneEdition
<1> QED  BY <1>1, <1>2, <1>3, CallsKeepsCInv, TimePassesKeepsCInv, RestartsKeepsCInv DEF Next

-----------------------------------------------------------------------------
(***************************************************************************)
(* The theorems.                                                           *)
(***************************************************************************)
\* Callers that find nothing in memory at once share one download, however
\* many they are and whichever of them fail or are cancelled.
THEOREM OneDownload == Spec => []DownloadsAreShared
<1>1. CInv => DownloadsAreShared
  BY DEF CInv, OneEdition, DownloadsAreShared
<1>2. Init => CInv
  BY InitCInv
<1>3. CInv /\ [Next]_allVars => CInv'
  BY NextCInv
<1> QED  BY <1>1, <1>2, <1>3, PTL DEF Spec

\* Every row that makes a contract is in the index of its own edition.
LEMMA ContractIsIndexed ==
  ASSUME NEW e \in EditionNumbers, NEW u \in Underlyings,
         NEW listed \in ChainOf[e][u], listed.token # {}
  PROVE  ResolveIn(IndexOf[e], "NFO", listed.symbol) = listed.token
<1> DEFINE all == RowsOf(e)
<1>1. SymbolsAreUnique(all)
  BY InstrumentMasterAssumption DEF RowsOf, SymbolsAreUnique, EditionNumbers
<1>2. ChainOf[e][u] = OptionInstruments(all, u) /\ IndexOf[e] = BuildIndex(all)
  BY DEF ChainOf, IndexOf, EditionNumbers
<1> HIDE DEF all
<1>3. PICK row \in all : /\ row.segment = "NFO" /\ row.symbol = listed.symbol
                         /\ row.token = listed.token
  <2>1. PICK row \in all : IsMatchingOptionRow(row, u) /\ listed \in ParseRow(row)
    BY <1>2 DEF OptionInstruments
  <2> QED  BY <2>1 DEF IsMatchingOptionRow, ParseRow
<1>4. \A entry : entry \in BuildIndex(all) <=>
        \E r \in all : \E token \in r.token : entry = <<<<r.segment, r.symbol>>, token>>
  BY DEF BuildIndex
<1>5. Tokens(BuildIndex(all), "NFO", listed.symbol) = row.token
  <2>1. ASSUME NEW token \in row.token
        PROVE  token \in Tokens(BuildIndex(all), "NFO", listed.symbol)
    <3>1. <<<<"NFO", listed.symbol>>, token>> \in BuildIndex(all)
      BY <1>3, <1>4
    <3> QED  BY <3>1 DEF Tokens
  <2>2. ASSUME NEW token \in Tokens(BuildIndex(all), "NFO", listed.symbol)
        PROVE  token \in row.token
    <3>1. PICK entry \in BuildIndex(all) :
            entry[1] = <<"NFO", listed.symbol>> /\ entry[2] = token
      BY DEF Tokens
    <3>2. PICK r \in all : token \in r.token /\ r.segment = "NFO" /\ r.symbol = listed.symbol
      BY <1>4, <3>1
    <3> QED  BY <1>1, <1>3, <3>2 DEF SymbolsAreUnique
  <2> QED  BY <2>1, <2>2
<1> QED  BY <1>2, <1>3, <1>5 DEF ResolveIn

\* A contract of a cached chain resolves to its own token, whatever editions
\* have been published and whichever loads failed, were cancelled or torn.
THEOREM ChainsResolve == Spec => []ContractsResolve
<1>1. ASSUME CInv
      PROVE  ContractsResolve
  <2> SUFFICES ASSUME index # 0, NEW u \in Underlyings,
                      NEW listed \in ChainOf[chains[u].edition][u], listed.token # {}
               PROVE  ResolveIn(IndexOf[index], "NFO", listed.symbol) = listed.token
    BY DEF ContractsResolve
  <2>1. chains[u].edition \in {0, rows} /\ index = rows /\ rows \in EditionNumbers
    BY <1>1 DEF CInv, OneEdition, ChainsTyped
  <2>2. chains[u].edition # 0
    <3>1. ChainOf[0][u] = {}
      BY InstrumentMasterAssumption DEF ChainOf, RowsOf, OptionInstruments
    <3> QED  BY <3>1
  <2> QED  BY <2>1, <2>2, ContractIsIndexed
<1>2. Init => CInv
  BY InitCInv
<1>3. CInv /\ [Next]_allVars => CInv'
  BY NextCInv
<1> QED  BY <1>1, <1>2, <1>3, PTL DEF Spec

-----------------------------------------------------------------------------
(***************************************************************************)
(* Advice.  What the strategies may say.                                   *)
(***************************************************************************)
\* A setup in a form that the provers can average: whole numbers, ordered the
\* way its direction asks for.
IsSetup(plan) ==
    /\ plan.entry \in Int /\ plan.stop_loss \in Int
    /\ plan.targets[1] \in Int /\ plan.targets[2] \in Int
    /\ plan.entry >= 1 /\ plan.stop_loss >= 1

Rises(plan) ==
    /\ plan.entry >= plan.stop_loss + 1
    /\ plan.targets[1] >= plan.entry + 1 /\ plan.targets[2] >= plan.entry + 1
    /\ plan.targets[2] >= plan.targets[1]

Drops(plan) ==
    /\ plan.stop_loss >= plan.entry + 1
    /\ plan.entry >= plan.targets[1] + 1 /\ plan.entry >= plan.targets[2] + 1
    /\ plan.targets[1] >= plan.targets[2]

Sound(direction, plan) ==
    /\ direction \in {"NONE", "BULLISH", "BEARISH"}
    /\ direction # "NONE" => IsSetup(plan) /\ DOMAIN plan.targets = 1..2
    /\ direction = "BULLISH" => Rises(plan)
    /\ direction = "BEARISH" => Drops(plan)

LEMMA SoundIsCoherent ==
  ASSUME NEW direction, NEW plan, Sound(direction, plan)
  PROVE  Coherent(direction, plan)
<1>1. CASE direction = "NONE"
  BY <1>1 DEF Coherent
<1>2. CASE direction = "BULLISH"
  <2>1. IsSetup(plan) /\ Rises(plan) /\ DOMAIN plan.targets = 1..2 /\ Sign(direction) = 1
    BY <1>2 DEF Sound, Sign
  <2>2. ASSUME NEW i \in 1..2
        PROVE  /\ Sign(direction) * (plan.targets[i] - plan.entry) > 0
               /\ i > 1 => Sign(direction) * (plan.targets[i] - plan.targets[i - 1]) >= 0
    <3>1. CASE i = 1
      BY <2>1, <3>1 DEF IsSetup, Rises
    <3>2. CASE i = 2
      <4>1. i - 1 = 1
        BY <3>2
      <4> QED  BY <2>1, <3>2, <4>1 DEF IsSetup, Rises
    <3> QED  BY <3>1, <3>2
  <2> QED  BY <2>1, <2>2 DEF Coherent, IsSetup, Rises
<1>3. CASE direction = "BEARISH"
  <2>1. IsSetup(plan) /\ Drops(plan) /\ DOMAIN plan.targets = 1..2 /\ Sign(direction) = -1
    BY <1>3 DEF Sound, Sign
  <2>2. ASSUME NEW i \in 1..2
        PROVE  /\ Sign(direction) * (plan.targets[i] - plan.entry) > 0
               /\ i > 1 => Sign(direction) * (plan.targets[i] - plan.targets[i - 1]) >= 0
    <3>1. CASE i = 1
      BY <2>1, <3>1 DEF IsSetup, Drops
    <3>2. CASE i = 2
      <4>1. i - 1 = 1
        BY <3>2
      <4> QED  BY <2>1, <3>2, <4>1 DEF IsSetup, Drops
    <3> QED  BY <3>1, <3>2
  <2> QED  BY <2>1, <2>2 DEF Coherent, IsSetup, Drops
<1> QED  BY <1>1, <1>2, <1>3 DEF Sound

LEMMA LevelsArePositive == Levels \subseteq Nat \ {0}
BY StrategiesAssumption

\* A strategy proposes sound setups.
LEMMA ProposalIsSound ==
  ASSUME NEW direction \in {"NONE", "BULLISH", "BEARISH"}, NEW px \in Levels,
         NEW stop \in Levels \cup {None}
  PROVE  Sound(Proposal(direction, px, stop).direction, Proposal(direction, px, stop))
<1> DEFINE signal == Proposal(direction, px, stop)
<1>0. px \in Nat \ {0} /\ stop \in Nat
  BY LevelsArePositive DEF None
<1>1. CASE signal = NoSignal
  BY <1>1 DEF NoSignal, Sound
<1>2. CASE direction = "BULLISH" /\ stop # None /\ stop < px
  <2> DEFINE risk == px - stop
  <2>1. risk \in Nat \ {0} /\ stop >= 1
    BY <1>0, <1>2 DEF None
  <2>2. Sign(direction) = 1 /\ Sign(direction) * (px - stop) = risk
    BY <1>0, <1>2 DEF Sign
  <2> HIDE DEF risk
  <2>3. signal = [direction |-> direction, entry |-> px, stop_loss |-> stop,
                  targets |-> <<px + 1 * ((3 * risk) \div 2), px + 1 * ((5 * risk) \div 2)>>]
    BY <1>2, <2>2 DEF Proposal, Risked, Setup
  <2>4. /\ (3 * risk) \div 2 \in Int /\ (5 * risk) \div 2 \in Int
        /\ (3 * risk) \div 2 >= 1 /\ (5 * risk) \div 2 >= (3 * risk) \div 2
    BY <2>1
  <2> HIDE DEF signal
  <2>5. IsSetup(signal) /\ Rises(signal) /\ DOMAIN signal.targets = 1..2
    <3> DEFINE t == (3 * risk) \div 2
               u == (5 * risk) \div 2
    <3>1. /\ signal.entry = px /\ signal.stop_loss = stop
          /\ signal.targets[1] = px + t /\ signal.targets[2] = px + u
          /\ DOMAIN signal.targets = 1..2
      BY <1>0, <2>3, <2>4
    <3> HIDE DEF t, u
    <3>2. t \in Int /\ u \in Int /\ t >= 1 /\ u >= t
      BY <2>4 DEF t, u
    <3> QED  BY <1>0, <1>2, <2>1, <3>1, <3>2 DEF IsSetup, Rises
  <2>6. signal.direction = direction
    BY <2>3
  <2>7. Sound(signal.direction, signal)
    BY <1>2, <2>5, <2>6 DEF Sound
  <2> QED  BY <2>7 DEF signal
<1>3. CASE direction = "BEARISH" /\ stop # None /\ stop > px
  <2> DEFINE risk == stop - px
  <2>1. risk \in Nat \ {0} /\ stop >= 1
    BY <1>0, <1>3 DEF None
  <2>2. Sign(direction) = -1 /\ Sign(direction) * (px - stop) = risk
    BY <1>0, <1>3 DEF Sign
  <2> HIDE DEF risk
  <2>3. signal = [direction |-> direction, entry |-> px, stop_loss |-> stop,
                  targets |-> <<px + (-1) * ((3 * risk) \div 2), px + (-1) * ((5 * risk) \div 2)>>]
    BY <1>3, <2>2 DEF Proposal, Risked, Setup
  <2>4. /\ (3 * risk) \div 2 \in Int /\ (5 * risk) \div 2 \in Int
        /\ (3 * risk) \div 2 >= 1 /\ (5 * risk) \div 2 >= (3 * risk) \div 2
    BY <2>1
  <2> HIDE DEF signal
  <2>5. IsSetup(signal) /\ Drops(signal) /\ DOMAIN signal.targets = 1..2
    <3> DEFINE t == (3 * risk) \div 2
               u == (5 * risk) \div 2
    <3>1. /\ signal.entry = px /\ signal.stop_loss = stop
          /\ signal.targets[1] = px - t /\ signal.targets[2] = px - u
          /\ DOMAIN signal.targets = 1..2
      BY <1>0, <2>3, <2>4
    <3> HIDE DEF t, u
    <3>2. t \in Int /\ u \in Int /\ t >= 1 /\ u >= t
      BY <2>4 DEF t, u
    <3> QED  BY <1>0, <1>3, <2>1, <3>1, <3>2 DEF IsSetup, Drops
  <2>6. signal.direction = direction
    BY <2>3
  <2>7. Sound(signal.direction, signal)
    BY <1>3, <2>5, <2>6 DEF Sound
  <2> QED  BY <2>7 DEF signal
<1> QED  BY <1>1, <1>2, <1>3 DEF Proposal, Risked

LEMMA OutcomesAreSound ==
  ASSUME NEW strategy \in Strategy, NEW px \in Levels, NEW signal \in Outcomes(strategy, px)
  PROVE  Sound(signal.direction, signal)
<1>0. Sound(NoSignal.direction, NoSignal)
  BY DEF NoSignal, Sound
<1>1. CASE strategy = "EMA_TREND"
  <2>1. PICK reading \in EmaReadings(px) : signal = EmaTrend(reading, px)
    BY <1>1 DEF Outcomes
  <2>2. reading.band \in Levels \cup {None}
    BY DEF EmaReadings
  <2> QED  BY <2>1, <2>2, ProposalIsSound DEF EmaTrend
<1>2. CASE strategy = "RSI_MACD_REVERSAL"
  <2>1. PICK reading \in RsiReadings(px) : signal = RsiMacdReversal(reading, px)
    BY <1>2 DEF Outcomes
  <2>2. reading.low \in Levels /\ reading.high \in Levels
    BY DEF RsiReadings
  <2> QED  BY <1>0, <2>1, <2>2, ProposalIsSound DEF RsiMacdReversal
<1>3. CASE strategy = "VWAP_VOLUME_BREAKOUT"
  <2>1. PICK reading \in VwapReadings(px) : signal = VwapVolumeBreakout(reading, px)
    BY <1>3 DEF Outcomes
  <2>2. reading.vwap \in Levels
    BY DEF VwapReadings
  <2> QED  BY <1>0, <2>1, <2>2, ProposalIsSound DEF VwapVolumeBreakout
<1> QED  BY <1>1, <1>2, <1>3 DEF Strategy

-----------------------------------------------------------------------------
(***************************************************************************)
(* The vote.                                                               *)
(***************************************************************************)
LEMMA StrategiesAreThree ==
  ASSUME NEW S \in SUBSET Strategy, S # {}
  PROVE  IsFiniteSet(S) /\ Cardinality(S) \in 1..3
<1>1. IsFiniteSet(Strategy) /\ Cardinality(Strategy) <= 3
  <2>1. IsFiniteSet({"EMA_TREND"}) /\ Cardinality({"EMA_TREND"}) = 1
    BY FS_Singleton
  <2>2. /\ IsFiniteSet({"EMA_TREND"} \cup {"RSI_MACD_REVERSAL"})
        /\ Cardinality({"EMA_TREND"} \cup {"RSI_MACD_REVERSAL"}) = 2
    BY <2>1, FS_AddElement
  <2> DEFINE T == {"EMA_TREND"} \cup {"RSI_MACD_REVERSAL"}
  <2>3. "VWAP_VOLUME_BREAKOUT" \notin T
    OBVIOUS
  <2>4. Strategy = T \cup {"VWAP_VOLUME_BREAKOUT"}
    BY DEF Strategy
  <2> HIDE DEF T
  <2>5. IsFiniteSet(T) /\ Cardinality(T) = 2
    BY <2>2 DEF T
  <2> QED  BY <2>3, <2>4, <2>5, FS_AddElement
<1>2. IsFiniteSet(S) /\ Cardinality(S) \in Nat /\ Cardinality(S) <= Cardinality(Strategy)
  BY <1>1, FS_Subset, FS_CardinalityType
<1>3. Cardinality(S) # 0
  BY <1>2, FS_EmptySet
<1>4. Cardinality(Strategy) \in Nat
  BY <1>1, FS_CardinalityType
<1> QED  BY <1>1, <1>2, <1>3, <1>4

\* Division by the number of voters keeps a distance they all keep.
LEMMA Quotients ==
  ASSUME NEW n \in 1..3, NEW a \in Int, NEW b \in Int, NEW d \in {0, 1}, a >= b + n * d
  PROVE  /\ a \div n \in Int /\ b \div n \in Int
         /\ a \div n >= b \div n + d
<1>1. CASE n = 1
  BY <1>1
<1>2. CASE n = 2
  BY <1>2
<1>3. CASE n = 3
  BY <1>3
<1> QED  BY <1>1, <1>2, <1>3

LEMMA AverageGap ==
  ASSUME NEW S \in SUBSET Strategy, S # {}, NEW f, NEW g, DOMAIN f = S, DOMAIN g = S,
         NEW d \in {0, 1}, \A s \in S : f[s] \in Int /\ g[s] \in Int /\ f[s] >= g[s] + d
  PROVE  /\ Average(f) \in Int /\ Average(g) \in Int
         /\ Average(f) >= Average(g) + d
<1> DEFINE n == Cardinality(S)
           e == [s \in S |-> f[s] - g[s] - d]
           c == [s \in S |-> d]
           h == [s \in S |-> g[s] + e[s]]
           F == SumFunctionOnSet(f, S)
           G == SumFunctionOnSet(g, S)
<1>1. IsFiniteSet(S) /\ n \in 1..3
  BY StrategiesAreThree
<1>2. SumFunctionOnSet(c, S) = n * d
  BY <1>1, SumConstant
<1>3. SumFunctionOnSet(e, S) \in Nat
  <2>1. \A s \in S : e[s] \in Nat
    OBVIOUS
  <2> HIDE DEF e
  <2> QED  BY <1>1, <2>1, SumIsNat
<1>4. SumFunctionOnSet(h, S) = G + SumFunctionOnSet(e, S)
  <2>1. \A s \in S : g[s] \in Int /\ e[s] \in Int /\ h[s] = g[s] + e[s]
    OBVIOUS
  <2> HIDE DEF e, h
  <2> QED  BY <1>1, <2>1, SumPlus
<1>5. F = SumFunctionOnSet(h, S) + SumFunctionOnSet(c, S)
  <2>1. \A s \in S : h[s] \in Int /\ c[s] \in Int /\ f[s] = h[s] + c[s]
    OBVIOUS
  <2> HIDE DEF h, c
  <2> QED  BY <1>1, <2>1, SumPlus
<1>6. F \in Int /\ G \in Int
  BY <1>1, SumIsInt
<1> HIDE DEF n, e, c, h, F, G
<1>7. F >= G + n * d
  <2>1. n * d \in Int
    BY <1>1
  <2> QED  BY <1>2, <1>3, <1>4, <1>5, <1>6, <2>1
<1>8. F \div n \in Int /\ G \div n \in Int /\ F \div n >= G \div n + d
  BY <1>1, <1>6, <1>7, Quotients
<1> QED  BY <1>8 DEF Average, SumFunction, F, G, n

LEMMA AveragePositive ==
  ASSUME NEW S \in SUBSET Strategy, S # {}, NEW f, DOMAIN f = S,
         \A s \in S : f[s] \in Int /\ f[s] >= 1
  PROVE  Average(f) >= 1
<1> DEFINE g == [s \in S |-> 0]
<1>1. SumFunctionOnSet(g, S) = 0
  <2>1. IsFiniteSet(S) /\ Cardinality(S) \in 1..3
    BY StrategiesAreThree
  <2>2. SumFunctionOnSet(g, S) = Cardinality(S) * 0
    BY <2>1, SumConstant
  <2> QED  BY <2>1, <2>2
<1>2. Average(g) = 0
  <2>1. Cardinality(S) \in 1..3
    BY StrategiesAreThree
  <2>2. 0 \div 1 = 0 /\ 0 \div 2 = 0 /\ 0 \div 3 = 0
    OBVIOUS
  <2>3. \A n \in 1..3 : n = 1 \/ n = 2 \/ n = 3
    OBVIOUS
  <2>4. DOMAIN g = S
    OBVIOUS
  <2> HIDE DEF g
  <2> QED  BY <1>1, <2>1, <2>2, <2>3, <2>4 DEF Average, SumFunction
<1>3. /\ DOMAIN g = S
      /\ \A s \in S : f[s] \in Int /\ g[s] \in Int /\ f[s] >= g[s] + 1
  OBVIOUS
<1> HIDE DEF g
<1>4. Average(f) \in Int /\ Average(g) \in Int /\ Average(f) >= Average(g) + 1
  BY <1>3, AverageGap
<1> QED  BY <1>2, <1>4

SignalsSound(told) == \A strategy \in Strategy : Sound(told[strategy].direction, told[strategy])

\* The average of sound setups of one direction is one.
LEMMA PlanIsSound ==
  ASSUME NEW told, SignalsSound(told)
  PROVE  Sound(Vote(told), Plan(told))
<1> DEFINE d == Vote(told)
           S == Voters(told, d)
           entry == [s \in S |-> told[s].entry]
           stop == [s \in S |-> told[s].stop_loss]
           first == [s \in S |-> told[s].targets[1]]
           second == [s \in S |-> told[s].targets[2]]
<1>1. d \in {"BULLISH", "BEARISH", "NONE"}
  BY DEF Vote
<1>2. CASE d = "NONE"
  BY <1>2 DEF Sound
<1>3. CASE d # "NONE"
  <2>1. S \in SUBSET Strategy /\ S # {}
    <3>1. IsFiniteSet(Strategy)
      BY StrategiesAreThree DEF Strategy
    <3>2. \A x : /\ Voters(told, x) \in SUBSET Strategy
                 /\ Cardinality(Voters(told, x)) \in Nat
                 /\ Voters(told, x) = {} => Cardinality(Voters(told, x)) = 0
      BY <3>1, FS_Subset, FS_CardinalityType, FS_EmptySet DEF Voters
    <3> QED  BY <1>3, <3>2 DEF Vote
  <2>2. ASSUME NEW s \in S
        PROVE  /\ IsSetup(told[s])
               /\ d = "BULLISH" => Rises(told[s])
               /\ d = "BEARISH" => Drops(told[s])
    <3>1. s \in Strategy /\ told[s].direction = d
      BY DEF Voters
    <3> QED  BY <1>3, <3>1 DEF SignalsSound, Sound
  <2>3. /\ DOMAIN entry = S /\ DOMAIN stop = S /\ DOMAIN first = S /\ DOMAIN second = S
        /\ \A s \in S : /\ entry[s] \in Int /\ stop[s] \in Int
                        /\ first[s] \in Int /\ second[s] \in Int
                        /\ entry[s] >= 1 /\ stop[s] >= 1
        /\ d = "BULLISH" => \A s \in S : /\ entry[s] >= stop[s] + 1
                                         /\ first[s] >= entry[s] + 1
                                         /\ second[s] >= entry[s] + 1
                                         /\ second[s] >= first[s] + 0
        /\ d = "BEARISH" => \A s \in S : /\ stop[s] >= entry[s] + 1
                                         /\ entry[s] >= first[s] + 1
                                         /\ entry[s] >= second[s] + 1
                                         /\ first[s] >= second[s] + 0
    BY <2>2 DEF IsSetup, Rises, Drops
  <2>4. /\ Plan(told).entry = Average(entry)
        /\ Plan(told).stop_loss = Average(stop)
        /\ Plan(told).targets = [i \in 1..2 |-> Average([s \in S |-> told[s].targets[i]])]
    BY <1>3 DEF Plan
  <2>5. /\ DOMAIN Plan(told).targets = 1..2
        /\ Plan(told).targets[1] = Average(first)
        /\ Plan(told).targets[2] = Average(second)
    BY <2>4
  <2> HIDE DEF S, entry, stop, first, second
  <2>6. /\ Average(entry) \in Int /\ Average(stop) \in Int
        /\ Average(first) \in Int /\ Average(second) \in Int
    <3>1. \A f : DOMAIN f = S /\ (\A s \in S : f[s] \in Int) => Average(f) \in Int
      <4> TAKE f
      <4> HAVE DOMAIN f = S /\ (\A s \in S : f[s] \in Int)
      <4>1. \A s \in S : f[s] >= f[s] + 0
        OBVIOUS
      <4> QED  BY <2>1, <4>1, AverageGap
    <3> QED  BY <2>3, <3>1
  <2>7. Average(entry) >= 1 /\ Average(stop) >= 1
    BY <2>1, <2>3, AveragePositive
  <2>8. IsSetup(Plan(told))
    BY <2>4, <2>5, <2>6, <2>7 DEF IsSetup
  <2>9. ASSUME d = "BULLISH" PROVE Rises(Plan(told))
    <3>1. /\ Average(entry) >= Average(stop) + 1
          /\ Average(first) >= Average(entry) + 1
          /\ Average(second) >= Average(entry) + 1
      BY <2>1, <2>3, <2>9, AverageGap
    <3>2. Average(second) >= Average(first) + 0
      BY <2>1, <2>3, <2>9, AverageGap
    <3> QED  BY <2>4, <2>5, <2>6, <3>1, <3>2 DEF Rises
  <2>10. ASSUME d = "BEARISH" PROVE Drops(Plan(told))
    <3>1. /\ Average(stop) >= Average(entry) + 1
          /\ Average(entry) >= Average(first) + 1
          /\ Average(entry) >= Average(second) + 1
      BY <2>1, <2>3, <2>10, AverageGap
    <3>2. Average(first) >= Average(second) + 0
      BY <2>1, <2>3, <2>10, AverageGap
    <3> QED  BY <2>4, <2>5, <2>6, <3>1, <3>2 DEF Drops
  <2> QED  BY <1>1, <2>5, <2>8, <2>9, <2>10 DEF Sound
<1> QED  BY <1>2, <1>3

-----------------------------------------------------------------------------
(***************************************************************************)
(* Expiries and strikes.                                                   *)
(***************************************************************************)
\* A finite set of numbers has a least and a greatest one.
LEMMA BoundsExist ==
  ASSUME NEW S, IsFiniteSet(S), S \subseteq Int, S # {}
  PROVE  /\ \E x \in S : \A y \in S : x <= y
         /\ \E x \in S : \A y \in S : x >= y
<1> DEFINE Bounded(T) == /\ \E x \in T : \A y \in T : x <= y
                         /\ \E x \in T : \A y \in T : x >= y
           G == {T \in SUBSET S : T = {} \/ Bounded(T)}
<1>1. {} \in G
  OBVIOUS
<1>2. ASSUME NEW T \in SUBSET S, \A U \in SUBSET T : U # T => U \in G
      PROVE  T \in G
  <2>1. CASE T # {}
    <3>1. PICK t : t \in T
      BY <2>1
    <3> DEFINE U == T \ {t}
    <3>2. U \in SUBSET T /\ U # T /\ T = U \cup {t} /\ t \in Int /\ U \subseteq Int
      BY <3>1
    <3>3. U = {} \/ Bounded(U)
      BY <1>2, <3>2
    <3> HIDE DEF U
    <3>4. CASE U = {}
      BY <3>2, <3>4
    <3>5. CASE Bounded(U)
      <4>1. PICK m \in U : \A y \in U : m <= y
        BY <3>5
      <4>2. PICK n \in U : \A y \in U : n >= y
        BY <3>5
      <4>3. \E x \in T : \A y \in T : x <= y
        <5>1. CASE m <= t
          BY <3>2, <4>1, <5>1
        <5>2. CASE t < m
          <6>1. \A y \in T : t <= y
            BY <3>2, <4>1, <5>2
          <6> QED  BY <3>1, <6>1
        <5> QED  BY <3>2, <4>1, <5>1, <5>2
      <4>4. \E x \in T : \A y \in T : x >= y
        <5>1. CASE n >= t
          BY <3>2, <4>2, <5>1
        <5>2. CASE t > n
          <6>1. \A y \in T : t >= y
            BY <3>2, <4>2, <5>2
          <6> QED  BY <3>1, <6>1
        <5> QED  BY <3>2, <4>2, <5>1, <5>2
      <4> QED  BY <4>3, <4>4
    <3> QED  BY <3>3, <3>4, <3>5
  <2> QED  BY <2>1
<1>3. S \in G
  <2> HIDE DEF G
  <2> QED  BY <1>1, <1>2, FiniteInduction
<1> QED  BY <1>3

LEMMA LeastAndGreatest ==
  ASSUME NEW S, IsFiniteSet(S), S \subseteq Int, S # {}
  PROVE  /\ Min(S) \in S /\ \A y \in S : Min(S) <= y
         /\ Max(S) \in S /\ \A y \in S : Max(S) >= y
<1>1. PICK x \in S : \A y \in S : x <= y
  BY BoundsExist
<1>2. PICK z \in S : \A y \in S : z >= y
  BY BoundsExist
<1> QED  BY <1>1, <1>2 DEF Min, Max

IsChain(table) ==
    IsFiniteSet(table) /\ \A c \in table : c.expiry \in Nat /\ c.strike \in Nat

LEMMA ExpiriesType ==
  ASSUME NEW table, IsChain(table)
  PROVE  IsFiniteSet(Expiries(table)) /\ Expiries(table) \subseteq Nat
<1> DEFINE p == [c \in table |-> c.expiry]
<1>1. {p[c] : c \in table} = Expiries(table)
  BY DEF Expiries
<1> HIDE DEF p
<1>2. IsFiniteSet({p[c] : c \in table})
  BY FiniteImage DEF IsChain
<1> QED  BY <1>1, <1>2 DEF IsChain, Expiries

LEMMA StrikesType ==
  ASSUME NEW table, IsChain(table), NEW expiry \in Expiries(table)
  PROVE  /\ IsFiniteSet(StrikesOf(table, expiry)) /\ StrikesOf(table, expiry) \subseteq Nat
         /\ StrikesOf(table, expiry) # {}
<1> DEFINE S == {d \in table : d.expiry = expiry}
           p == [c \in S |-> c.strike]
<1>1. {p[c] : c \in S} = StrikesOf(table, expiry)
  BY DEF StrikesOf
<1>2. IsFiniteSet(S) /\ S # {}
  BY FS_Subset DEF IsChain, Expiries
<1>3. StrikesOf(table, expiry) \subseteq Nat /\ StrikesOf(table, expiry) # {}
  BY <1>2 DEF IsChain, StrikesOf
<1> HIDE DEF p, S
<1>4. IsFiniteSet({p[c] : c \in S})
  BY <1>2, FiniteImage
<1> QED  BY <1>1, <1>3, <1>4

\* The expiry chosen is listed and has not passed (ExpirySelector.select).
LEMMA ExpiryIsUpcoming ==
  ASSUME NEW E, IsFiniteSet(E), E \subseteq Nat, NEW day \in Nat,
         NEW mode \in {"NEAREST_WEEKLY", "NEXT_WEEKLY", "MONTHLY"},
         SelectExpiry(E, mode, day) # NoExpiry
  PROVE  SelectExpiry(E, mode, day) \in E /\ SelectExpiry(E, mode, day) >= day
<1> DEFINE upcoming == Upcoming(E, day)
           monthly == {expiry \in upcoming :
                         \A other \in upcoming : Month(other) = Month(expiry) => other <= expiry}
<1>1. upcoming \subseteq E /\ IsFiniteSet(upcoming) /\ upcoming \subseteq Int
      /\ \A expiry \in upcoming : expiry >= day
  <2>1. upcoming \subseteq E /\ \A expiry \in upcoming : expiry >= day
    BY DEF Upcoming
  <2> HIDE DEF upcoming
  <2>2. IsFiniteSet(upcoming)
    BY <2>1, FS_Subset
  <2>3. upcoming \subseteq Int
    BY <2>1
  <2> QED  BY <2>1, <2>2, <2>3
<1>2. upcoming # {}
  BY DEF SelectExpiry
<1>3. /\ Min(upcoming) \in upcoming /\ Max(upcoming) \in upcoming
      /\ \A y \in upcoming : Max(upcoming) >= y
  BY <1>1, <1>2, LeastAndGreatest
<1>4. CASE mode = "NEAREST_WEEKLY"
  BY <1>1, <1>2, <1>3, <1>4 DEF SelectExpiry
<1>5. CASE mode = "NEXT_WEEKLY"
  <2> DEFINE others == upcoming \ {Min(upcoming)}
  <2>1. Cardinality(upcoming) >= 2 /\ SelectExpiry(E, mode, day) = Min(others)
    BY <1>2, <1>5, FS_CardinalityType, <1>1 DEF SelectExpiry
  <2>2. others # {}
    <3>1. upcoming # {Min(upcoming)}
      <4>1. Cardinality({Min(upcoming)}) = 1
        BY FS_Singleton
      <4> QED  BY <2>1, <4>1
    <3> QED  BY <1>3, <3>1
  <2>3. IsFiniteSet(others) /\ others \subseteq Int
    BY <1>1, FS_Subset
  <2>4. Min(others) \in others
    <3> HIDE DEF others
    <3> QED  BY <2>2, <2>3, LeastAndGreatest
  <2> QED  BY <1>1, <2>1, <2>4
<1>6. CASE mode = "MONTHLY"
  <2>1. SelectExpiry(E, mode, day) = Min(monthly)
    BY <1>2, <1>6 DEF SelectExpiry
  <2>2. Max(upcoming) \in monthly
    BY <1>1, <1>3
  <2>3. IsFiniteSet(monthly) /\ monthly \subseteq Int /\ monthly \subseteq upcoming
    BY <1>1, FS_Subset
  <2>4. Min(monthly) \in monthly
    <3> HIDE DEF monthly
    <3> QED  BY <2>2, <2>3, LeastAndGreatest
  <2> QED  BY <1>1, <2>1, <2>3, <2>4
<1> QED  BY <1>4, <1>5, <1>6

\* The strike at the money is listed, and none is nearer.
LEMMA AtmIsNearest ==
  ASSUME NEW S, IsFiniteSet(S), S \subseteq Nat, S # {}, NEW px \in Nat
  PROVE  /\ AtmStrike(S, px) \in S
         /\ \A other \in S : Distance(AtmStrike(S, px), px) <= Distance(other, px)
<1> DEFINE p == [strike \in S |-> Distance(strike, px)]
           D == {p[strike] : strike \in S}
           nearest == {strike \in S : \A other \in S : Distance(strike, px) <= Distance(other, px)}
<1>1. \A strike \in S : p[strike] = Distance(strike, px) /\ p[strike] \in Nat
  BY DEF Distance
<1>2. IsFiniteSet(D)
  <2> HIDE DEF p
  <2> QED  BY FiniteImage
<1>3. D \subseteq Int /\ D # {}
  <2> HIDE DEF p
  <2>1. \A y \in D : y \in Int
    BY <1>1
  <2> QED  BY <2>1
<1>4. Min(D) \in D /\ \A y \in D : Min(D) <= y
  <2> HIDE DEF D
  <2> QED  BY <1>2, <1>3, LeastAndGreatest
<1> HIDE DEF p
<1>5. PICK strike \in S : p[strike] = Min(D)
  BY <1>4
<1>6. strike \in nearest
  <2>1. \A other \in S : p[strike] <= p[other]
    BY <1>4, <1>5
  <2> QED  BY <1>1, <2>1
<1>7. IsFiniteSet(nearest) /\ nearest \subseteq Int
  <2>1. nearest \in SUBSET S
    OBVIOUS
  <2> HIDE DEF nearest
  <2>2. IsFiniteSet(nearest)
    BY <2>1, FS_Subset
  <2> QED  BY <2>1, <2>2
<1>8. Min(nearest) \in nearest
  <2> HIDE DEF nearest
  <2> QED  BY <1>6, <1>7, LeastAndGreatest
<1> QED  BY <1>8 DEF AtmStrike

\* A move up from the strike at the money passes the price, a move down falls
\* below it, unless the list ends there (StrikeSelector.select).
LEMMA StrikeIsAsAsked ==
  ASSUME NEW S, IsFiniteSet(S), S \subseteq Nat, S # {}, NEW px \in Nat, NEW type, NEW mode
  PROVE  LET strike == SelectStrike(S, px, type, mode)
         IN  /\ mode = "ATM" =>
                  \A other \in S : Distance(strike, px) <= Distance(other, px)
             /\ mode # "ATM" /\ MovesUp(mode, type) => strike > px \/ strike = Max(S)
             /\ mode # "ATM" /\ ~MovesUp(mode, type) => strike < px \/ strike = Min(S)
<1> DEFINE atm == AtmStrike(S, px)
           above == {strike \in S : strike > atm}
           below == {strike \in S : strike < atm}
<1>0. \A strike \in S : strike \in Nat
  OBVIOUS
<1>1. atm \in S /\ \A other \in S : Distance(atm, px) <= Distance(other, px)
  BY AtmIsNearest
<1>2. /\ IsFiniteSet(above) /\ above \subseteq Int
      /\ IsFiniteSet(below) /\ below \subseteq Int
  <2>1. above \in SUBSET S /\ below \in SUBSET S
    OBVIOUS
  <2> HIDE DEF above, below
  <2>2. IsFiniteSet(above) /\ IsFiniteSet(below)
    BY <2>1, FS_Subset
  <2> QED  BY <2>1, <2>2
<1>3. /\ above # {} => Min(above) \in above
      /\ below # {} => Max(below) \in below
  <2> HIDE DEF above, below
  <2> QED  BY <1>2, LeastAndGreatest
<1>4. /\ Max(S) \in S /\ \A y \in S : Max(S) >= y
      /\ Min(S) \in S /\ \A y \in S : Min(S) <= y
  <2>1. S \subseteq Int
    OBVIOUS
  <2> QED  BY <2>1, LeastAndGreatest
<1>5. /\ above = {} => atm = Max(S)
      /\ below = {} => atm = Min(S)
  <2>1. Max(S) \in Int /\ Min(S) \in Int /\ atm \in Int
    <3> HIDE DEF atm
    <3>1. \A strike \in S : strike \in Int
      BY <1>0
    <3> QED  BY ONLY <1>1, <1>4, <3>1
  <2>2. above = {} => ~(Max(S) > atm)
    BY <1>4
  <2>3. below = {} => ~(Min(S) < atm)
    BY <1>4
  <2> QED  BY <1>1, <1>4, <2>1, <2>2, <2>3
<1>6. ASSUME NEW strike \in S, strike > atm
      PROVE  strike > px
  <2>1. strike \in Nat /\ atm \in Nat /\ Distance(atm, px) <= Distance(strike, px)
    BY <1>0, <1>1
  <2> HIDE DEF atm
  <2> QED  BY <1>6, <2>1 DEF Distance
<1>7. ASSUME NEW strike \in S, strike < atm
      PROVE  strike < px
  <2>1. strike \in Nat /\ atm \in Nat /\ Distance(atm, px) <= Distance(strike, px)
    BY <1>0, <1>1
  <2> HIDE DEF atm
  <2> QED  BY <1>7, <2>1 DEF Distance
<1>8. CASE mode = "ATM"
  BY <1>1, <1>8 DEF SelectStrike
<1>9. CASE mode # "ATM" /\ MovesUp(mode, type)
  <2>1. SelectStrike(S, px, type, mode) = IF above = {} THEN atm ELSE Min(above)
    BY <1>9 DEF SelectStrike
  <2> QED  BY <1>3, <1>5, <1>6, <1>9, <2>1
<1>10. CASE mode # "ATM" /\ ~MovesUp(mode, type)
  <2>1. SelectStrike(S, px, type, mode) = IF below = {} THEN atm ELSE Max(below)
    BY <1>10 DEF SelectStrike
  <2> QED  BY <1>3, <1>5, <1>7, <1>10, <2>1
<1> QED  BY <1>8, <1>9, <1>10

-----------------------------------------------------------------------------
(***************************************************************************)
(* The request.                                                            *)
(***************************************************************************)
AdviceInv ==
    /\ close \in Levels \cup {None}
    /\ at \in Strategy \cup {"instructor", "chain", "select", "premium"} => close \in Levels
    /\ DOMAIN signals = Strategy
    /\ SignalsSound(signals)
    /\ AdviceIsCoherent
    /\ IsChain(chain)
    /\ strike_mode \in StrikeModes /\ expiry_mode \in ExpiryModes /\ today \in Nat
    /\ contract # NoContract => at \in {"premium", "answered", "failed"}
    /\ ContractIsAsAsked

LEMMA PricesAreNats == Levels \cup {None} \subseteq Nat
BY LevelsArePositive DEF None

\* What picks a contract picks the one that was asked for.
LEMMA SelectsAsAsked ==
  ASSUME AdviceInv, at = "select", TheExpiry # NoExpiry,
         NEW type, type = OptionType(advice.action),
         IsListed(chain, TheExpiry, TheStrike, type),
         contract' = Contract(TheExpiry, TheStrike, type),
         UNCHANGED <<close, advice, strike_mode, today, chain>>
  PROVE  ContractIsAsAsked'
<1> DEFINE expiry == TheExpiry
           strike == TheStrike
           strikes == StrikesOf(chain, expiry)
           buy == advice.action = "BUY"
<1>1. /\ IsChain(chain) /\ close \in Nat /\ today \in Nat
      /\ expiry_mode \in {"NEAREST_WEEKLY", "NEXT_WEEKLY", "MONTHLY"}
      /\ strike_mode \in {"ATM", "ITM", "OTM"}
  BY PricesAreNats, AdviceAssumption DEF AdviceInv
<1>2. expiry \in Expiries(chain) /\ expiry >= today
  BY <1>1, ExpiriesType, ExpiryIsUpcoming DEF TheExpiry
<1>3. IsFiniteSet(strikes) /\ strikes \subseteq Nat /\ strikes # {}
  BY <1>1, <1>2, StrikesType
<1>4. strike = SelectStrike(strikes, close, type, strike_mode)
  BY DEF TheStrike
<1> HIDE DEF expiry, strike
<1>5. /\ strike_mode = "ATM" =>
           \A other \in strikes : Distance(strike, close) <= Distance(other, close)
      /\ strike_mode # "ATM" /\ MovesUp(strike_mode, type) => strike > close \/ strike = Max(strikes)
      /\ strike_mode # "ATM" /\ ~MovesUp(strike_mode, type) =>
           strike < close \/ strike = Min(strikes)
  <2> HIDE DEF strikes
  <2> QED  BY <1>1, <1>3, <1>4, StrikeIsAsAsked
<1>6. /\ contract' = [expiry |-> expiry, strike |-> strike, type |-> type]
      /\ contract' \in chain
  BY DEF Contract, IsListed, expiry, strike
<1>7. /\ contract'.expiry = expiry /\ contract'.strike = strike /\ contract'.type = type
      /\ strike \in Nat
  BY <1>1, <1>6 DEF IsChain
<1>8. type = "CE" <=> buy
  BY DEF OptionType
<1> DEFINE intrinsic == IF buy THEN close - strike ELSE strike - close
           furthest == IF buy = (strike_mode = "OTM") THEN Max(strikes) ELSE Min(strikes)
<1>9. /\ strike_mode = "OTM" => intrinsic < 0 \/ strike = furthest
      /\ strike_mode = "ITM" => intrinsic > 0 \/ strike = furthest
  <2> HIDE DEF strikes
  <2>1. type = "CE" \/ type = "PE"
    BY DEF OptionType
  <2>2. CASE buy
    BY <1>1, <1>5, <1>7, <1>8, <2>1, <2>2 DEF MovesUp
  <2>3. CASE ~buy
    BY <1>1, <1>5, <1>7, <1>8, <2>1, <2>3 DEF MovesUp
  <2> QED  BY <2>2, <2>3
<1> QED
  BY <1>2, <1>5, <1>6, <1>7, <1>8, <1>9 DEF ContractIsAsAsked

LEMMA InitAdviceInv == AdviceInit => AdviceInv
<1> SUFFICES ASSUME AdviceInit PROVE AdviceInv
  OBVIOUS
<1>1. SignalsSound(signals) /\ DOMAIN signals = Strategy
  BY DEF AdviceInit, Untold, NoSignal, SignalsSound, Sound
<1>2. IsChain(chain)
  BY FS_EmptySet DEF AdviceInit, IsChain
<1>3. today \in Nat
  BY AdviceAssumption DEF AdviceInit
<1>4. at = "idle" /\ close = None /\ contract = NoContract /\ error = "none"
  BY DEF AdviceInit
<1>5. /\ AdviceIsCoherent /\ ContractIsAsAsked
      /\ close \in Levels \cup {None}
      /\ at \notin Strategy \cup {"instructor", "chain", "select", "premium"}
  BY <1>4 DEF AdviceIsCoherent, ContractIsAsAsked, Strategy
<1> QED  BY <1>1, <1>2, <1>3, <1>4, <1>5 DEF AdviceInv, AdviceInit

\* A request that fails keeps what it has found, and fails for another reason.
LEMMA FailsKeepsAdviceInv ==
  ASSUME AdviceInv, NEW why, Fails(why), why # "incoherent"
  PROVE  AdviceInv'
<1>1. at' = "failed" /\ error' = why
  BY DEF Fails
<1>2. UNCHANGED <<about, close, signals, advice, strike_mode, expiry_mode, today, chain, contract>>
  BY DEF Fails
<1>3. ContractIsAsAsked'
  BY <1>2 DEF AdviceInv, ContractIsAsAsked
<1>4. AdviceIsCoherent'
  BY <1>1 DEF AdviceIsCoherent
<1>5. at' \notin Strategy \cup {"instructor", "chain", "select", "premium"}
  BY <1>1 DEF Strategy
<1> QED  BY <1>1, <1>2, <1>3, <1>4, <1>5 DEF AdviceInv

\* While no contract is picked none can be wrong.
LEMMA NothingPicked ==
  ASSUME contract' = NoContract
  PROVE  ContractIsAsAsked'
BY DEF ContractIsAsAsked

LEMMA FetchesCandlesKeepsAdviceInv ==
  ASSUME AdviceInv, FetchesCandles
  PROVE  AdviceInv'
<1>1. at = "idle" /\ close' \in Levels
  BY DEF FetchesCandles
<1>2. UNCHANGED <<about, signals, advice, strike_mode, expiry_mode, today, chain, contract, error>>
  BY DEF FetchesCandles
<1>3. contract' = NoContract
  BY <1>1, <1>2 DEF AdviceInv
<1> QED  BY <1>1, <1>2, <1>3, NothingPicked DEF AdviceInv, AdviceIsCoherent

LEMMA AnalyzesKeepsAdviceInv ==
  ASSUME AdviceInv, Analyzes
  PROVE  AdviceInv'
<1>1. at \in Strategy /\ close \in Levels /\ SignalsSound(signals) /\ DOMAIN signals = Strategy
  BY DEF Analyzes, AdviceInv
<1>2. PICK signal \in Outcomes(at, close) :
        IF Coherent(signal.direction, signal)
        THEN /\ signals' = [signals EXCEPT ![at] = signal]
             /\ at' = NextOf(at)
             /\ UNCHANGED <<about, close, advice, strike_mode, expiry_mode, today,
                            chain, contract, error>>
        ELSE Fails("incoherent")
  BY DEF Analyzes
<1>3. Sound(signal.direction, signal)
  BY <1>1, OutcomesAreSound
<1>4. Coherent(signal.direction, signal)
  BY <1>3, SoundIsCoherent
<1>5. /\ signals' = [signals EXCEPT ![at] = signal]
      /\ at' = NextOf(at)
      /\ UNCHANGED <<about, close, advice, strike_mode, expiry_mode, today, chain, contract, error>>
  BY <1>2, <1>4
<1>6. SignalsSound(signals)' /\ DOMAIN signals' = Strategy
  <2>1. ASSUME NEW s \in Strategy
        PROVE  signals'[s] = IF s = at THEN signal ELSE signals[s]
    BY <1>1, <1>5
  <2>2. ASSUME NEW s \in Strategy
        PROVE  Sound(signals'[s].direction, signals'[s])
    BY <1>1, <1>3, <2>1, <2>2 DEF SignalsSound
  <2> QED  BY <1>1, <1>5, <2>2 DEF SignalsSound
<1>7. contract' = NoContract
  BY <1>1, <1>5 DEF AdviceInv, Strategy
<1> QED  BY <1>1, <1>5, <1>6, <1>7, NothingPicked DEF AdviceInv, AdviceIsCoherent

LEMMA InstructsKeepsAdviceInv ==
  ASSUME AdviceInv, Instructs
  PROVE  AdviceInv'
<1>1. at = "instructor" /\ close \in Levels /\ SignalsSound(signals)
  BY DEF Instructs, AdviceInv
<1>2. Coherent(Vote(signals), Plan(signals))
  BY <1>1, PlanIsSound, SoundIsCoherent
<1>3. /\ at' \in {"answered", "chain"}
      /\ UNCHANGED <<about, close, signals, strike_mode, expiry_mode, today, chain, contract, error>>
  BY <1>2 DEF Instructs
<1>4. contract' = NoContract
  BY <1>1, <1>3 DEF AdviceInv
<1> QED  BY <1>1, <1>3, <1>4, NothingPicked DEF AdviceInv, AdviceIsCoherent

LEMMA FetchesChainKeepsAdviceInv ==
  ASSUME AdviceInv, FetchesChain
  PROVE  AdviceInv'
<1>1. at = "chain" /\ at' = "select" /\ chain' \in Chains
  BY DEF FetchesChain
<1>2. UNCHANGED <<about, close, signals, advice, strike_mode, expiry_mode, today, contract, error>>
  BY DEF FetchesChain
<1>3. IsChain(chain)'
  BY <1>1, AdviceAssumption DEF IsChain
<1>4. contract' = NoContract
  BY <1>1, <1>2 DEF AdviceInv
<1> QED  BY <1>1, <1>2, <1>3, <1>4, NothingPicked DEF AdviceInv, AdviceIsCoherent

LEMMA SelectsContractKeepsAdviceInv ==
  ASSUME AdviceInv, SelectsContract
  PROVE  AdviceInv'
<1>1. CASE TheExpiry = NoExpiry
  BY <1>1, FailsKeepsAdviceInv DEF SelectsContract
<1> DEFINE type == OptionType(advice.action)
<1>2. CASE TheExpiry # NoExpiry /\ ~IsListed(chain, TheExpiry, TheStrike, type)
  BY <1>2, FailsKeepsAdviceInv DEF SelectsContract
<1>3. CASE TheExpiry # NoExpiry /\ IsListed(chain, TheExpiry, TheStrike, type)
  <2>1. /\ at = "select" /\ at' = "premium"
        /\ contract' = Contract(TheExpiry, TheStrike, type)
        /\ UNCHANGED <<about, close, signals, advice, strike_mode, expiry_mode, today, chain, error>>
    BY <1>3 DEF SelectsContract
  <2>2. ContractIsAsAsked'
    BY <1>3, <2>1, SelectsAsAsked
  <2> QED  BY <2>1, <2>2 DEF AdviceInv, AdviceIsCoherent
<1> QED  BY <1>1, <1>2, <1>3

LEMMA NextAdviceInv == AdviceInv /\ [AdviceNext]_adviceVars => AdviceInv'
<1> SUFFICES ASSUME AdviceInv, [AdviceNext]_adviceVars PROVE AdviceInv'
  OBVIOUS
<1>1. CASE FetchesCandles
  BY <1>1, FetchesCandlesKeepsAdviceInv
<1>2. CASE FindsNoCandles
  BY <1>2, FailsKeepsAdviceInv DEF FindsNoCandles
<1>3. CASE RefusesOptions
  BY <1>3, FailsKeepsAdviceInv DEF RefusesOptions
<1>4. CASE Analyzes
  BY <1>4, AnalyzesKeepsAdviceInv
<1>5. CASE Instructs
  BY <1>5, InstructsKeepsAdviceInv
<1>6. CASE FetchesChain
  BY <1>6, FetchesChainKeepsAdviceInv
<1>7. CASE FindsNoChain
  BY <1>7, FailsKeepsAdviceInv DEF FindsNoChain
<1>8. CASE SelectsContract
  BY <1>8, SelectsContractKeepsAdviceInv
<1>9. CASE QuotesPremium
  BY <1>9 DEF QuotesPremium, AdviceInv, AdviceIsCoherent, ContractIsAsAsked, Strategy
<1>10. CASE FindsNoPremium
  BY <1>10, FailsKeepsAdviceInv DEF FindsNoPremium
<1>11. CASE UNCHANGED adviceVars
  BY <1>11 DEF adviceVars, AdviceInv, AdviceIsCoherent, ContractIsAsAsked
<1> QED
  BY <1>1, <1>2, <1>3, <1>4, <1>5, <1>6, <1>7, <1>8, <1>9, <1>10, <1>11 DEF AdviceNext

\* The invariant of a request for a recommendation.
THEOREM AdviceStaysSound == AdviceSpec => []AdviceInv
<1>1. AdviceInit => AdviceInv
  BY InitAdviceInv
<1>2. AdviceInv /\ [AdviceNext]_adviceVars => AdviceInv'
  BY NextAdviceInv
<1> QED  BY <1>1, <1>2, PTL DEF AdviceSpec

\* No strategy proposes, and no vote averages, a setup that the validators of
\* StrategySignal and InstructorRecommendation refuse, whatever the indicators
\* read and however the strategies disagree.
THEOREM AdviceStaysCoherent == AdviceSpec => []AdviceIsCoherent
<1>1. AdviceInv => AdviceIsCoherent
  BY DEF AdviceInv
<1> QED  BY <1>1, AdviceStaysSound, PTL

\* The contract picked is the one its modes name, of any chain with any
\* expiries and strikes (ExpirySelector, StrikeSelector, instrument_for).
THEOREM ContractStaysAsAsked == AdviceSpec => []ContractIsAsAsked
<1>1. AdviceInv => ContractIsAsAsked
  BY DEF AdviceInv
<1> QED  BY <1>1, AdviceStaysSound, PTL

==============================================================================
