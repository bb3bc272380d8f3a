---------------------------- MODULE GitSyncProofs ----------------------------
(***************************************************************************)
(* Proofs about GitSync, for every number of saves and of commits: the     *)
(* variables keep their types, every save can be found again, and no       *)
(* revision older than a returned commit is taken from the cache.          *)
(***************************************************************************)
EXTENDS GitSync, SequenceTheorems, TLAPS

(* A revision is in its own history, and whatever is in its history comes  *)
(* with its own history and its tree: merge-base answers as it should, and *)
(* what contains a revision contains its saves.                            *)
HistoryInv ==
    \A b \in Revisions :
        /\ b \in commits[b].history
        /\ \A a \in commits[b].history :
              /\ commits[a].history \subseteq commits[b].history
              /\ commits[a].tree \subseteq commits[b].tree

(* The working tree holds what the branch does. *)
TreeInv == commits[head].tree \subseteq worktree

(* A force sync has out of the way what its reset is going to overwrite:   *)
(* the changes once they are stashed, or if there were none, and, once     *)
(* they are preserved, the saves of the revision it read.                  *)
SyncInv ==
    /\ (sync.at = "read" /\ ~sync.dirty) => worktree \subseteq commits[head].tree \cup exposed
    /\ sync.at \in {"stashed", "preserved", "reset"} =>
          worktree \subseteq commits[head].tree \cup stashed \cup exposed
    /\ sync.at = "preserved" =>
          commits[sync.current].tree \subseteq backedUp \cup commits[sync.target].tree

(* The revision is none, the one a commit returned with, or no part of its *)
(* history.                                                                *)
NotBefore(c) == c \in {NoRevision, returned} \/ ~IsAncestor(c, returned)

(* Since a commit returned the branch, the cache and whoever holds the     *)
(* cache's lock have nothing older.                                        *)
CacheInv == returned # NoRevision => NotBefore(head) /\ NotBefore(revision) /\ NotBefore(looking)

Invariant == GitSyncTypeOK /\ HistoryInv /\ TreeInv /\ SyncInv /\ NothingLost /\ CacheInv

-----------------------------------------------------------------------------
(* Numbers and sequences of the type invariant. *)
LEMMA Counts ==
    ASSUME GitSyncTypeOK
    PROVE  /\ commits \in Seq(Commits) /\ Len(commits) \in Nat
           /\ saves \in Nat /\ MaxSaves \in Nat /\ saves <= MaxSaves
<1>1. commits \in Seq(Commits) /\ saves \in 0 .. MaxSaves
    BY DEF GitSyncTypeOK
<1> QED BY <1>1, LenProperties, GitSyncBounds

(* The revisions among the variables. *)
LEMMA Numbers ==
    ASSUME GitSyncTypeOK
    PROVE  /\ head \in Revisions /\ origin \in Revisions
           /\ returned # NoRevision => returned \in Revisions
           /\ looking # NoRevision => looking \in Revisions
           /\ revision # NoRevision => revision \in Revisions
<1>1. /\ head \in Revisions /\ origin \in Revisions
      /\ revision \in 0 .. Len(commits) /\ looking \in 0 .. Len(commits) /\ returned \in 0 .. Len(commits)
    BY DEF GitSyncTypeOK
<1>2. Len(commits) \in Nat
    BY Counts
<1> QED BY <1>1, <1>2 DEF Revisions, NoRevision

(* What the histories and the trees hold. *)
LEMMA Contents ==
    ASSUME GitSyncTypeOK, NEW c \in Revisions
    PROVE  /\ commits[c].history \subseteq 1 .. c /\ commits[c].tree \subseteq 1 .. saves
           /\ commits[c].history \subseteq Revisions
<1>1. commits[c].history \subseteq 1 .. c /\ commits[c].tree \subseteq 1 .. saves
    BY DEF GitSyncTypeOK
<1>2. Len(commits) \in Nat
    BY Counts
<1> QED BY <1>1, <1>2 DEF Revisions

(* What a commit on top of revision p does: the revisions there are stay   *)
(* as they are, and the new one extends the history of p.                  *)
LEMMA NewCommitIs ==
    ASSUME GitSyncTypeOK, HistoryInv, saves' \in Nat, saves <= saves',
           NEW p \in Revisions, NEW t \in SUBSET (1 .. saves'), commits[p].tree \subseteq t,
           commits' = NewCommit(p, t)
    PROVE  /\ Len(commits) \in Nat /\ Len(commits') = Len(commits) + 1
           /\ Revisions' = Revisions \cup {Len(commits) + 1}
           /\ Len(commits) + 1 \notin Revisions
           /\ \A c \in Revisions : commits'[c] = commits[c]
           /\ commits'[Len(commits) + 1].history = commits[p].history \cup {Len(commits) + 1}
           /\ commits'[Len(commits) + 1].tree = t
           /\ commits' \in Seq(Commits)
           /\ \A c \in Revisions' : /\ commits'[c].history \subseteq 1 .. c
                                    /\ commits'[c].tree \subseteq 1 .. saves'
           /\ HistoryInv'
<1> DEFINE n == Len(commits) + 1
           new == [history |-> commits[p].history \cup {n}, tree |-> t]
<1>1. commits \in Seq(Commits) /\ Len(commits) \in Nat /\ saves \in Nat
    BY Counts
<1>2. commits[p] \in Commits /\ new \in Commits
    <2>1. commits[p] \in Commits
        BY <1>1, ElementOfSeq DEF Revisions
    <2>2. commits[p].history \cup {n} \in SUBSET Nat /\ t \in SUBSET Nat
        BY <1>1, <2>1 DEF Commits
    <2> QED BY <2>1, <2>2 DEF Commits
<1>3. /\ commits' \in Seq(Commits) /\ Len(commits') = n
      /\ commits'[n] = new /\ \A c \in Revisions : commits'[c] = commits[c]
    BY <1>1, <1>2, AppendProperties DEF NewCommit, Revisions
<1>4. Revisions' = Revisions \cup {n} /\ n \notin Revisions
    BY <1>1, <1>3 DEF Revisions
<1>5. \A c \in Revisions' : /\ commits'[c].history \subseteq 1 .. c
                            /\ commits'[c].tree \subseteq 1 .. saves'
    <2> SUFFICES ASSUME NEW c \in Revisions'
                 PROVE  commits'[c].history \subseteq 1 .. c /\ commits'[c].tree \subseteq 1 .. saves'
        OBVIOUS
    <2>1. \A d \in Revisions : commits[d].history \subseteq 1 .. d /\ commits[d].tree \subseteq 1 .. saves
        BY DEF GitSyncTypeOK
    <2>2. CASE c \in Revisions
        BY <1>1, <1>3, <2>1, <2>2
    <2>3. CASE c = n
        <3>1. commits[p].history \subseteq 1 .. p /\ p \in 1 .. Len(commits)
            BY <2>1 DEF Revisions
        <3>2. commits'[c].history = commits[p].history \cup {c} /\ commits'[c].tree = t
            BY <1>3, <2>3
        <3> QED BY <1>1, <2>3, <3>1, <3>2
    <2> QED BY <1>4, <2>2, <2>3
<1>6. HistoryInv'
    <2> SUFFICES ASSUME NEW b \in Revisions'
                 PROVE  /\ b \in commits'[b].history
                        /\ \A a \in commits'[b].history :
                              /\ commits'[a].history \subseteq commits'[b].history
                              /\ commits'[a].tree \subseteq commits'[b].tree
        BY DEF HistoryInv
    <2>1. \A c \in Revisions : commits[c].history \subseteq Revisions
        <3> SUFFICES ASSUME NEW c \in Revisions, NEW a \in commits[c].history
                     PROVE  a \in Revisions
            OBVIOUS
        <3>1. c \in 1 .. Len(commits) /\ a \in 1 .. c
            BY DEF GitSyncTypeOK, Revisions
        <3> QED BY <1>1, <3>1 DEF Revisions
    <2>2. CASE b \in Revisions
        BY <1>3, <2>1, <2>2 DEF HistoryInv
    <2>3. CASE b = n
        BY <1>3, <2>1, <2>3 DEF HistoryInv
    <2> QED BY <1>4, <2>2, <2>3
<1> QED BY <1>1, <1>3, <1>4, <1>5, <1>6



(* No revision counts as one before the first. *)
LEMMA OrNone == ASSUME NEW n \in Nat PROVE 1 .. n \subseteq 0 .. n /\ 0 \in 0 .. n
OBVIOUS

(* What a step leaves keeps its type when no revision and no save goes. *)
LEMMA TypesKept ==
    ASSUME GitSyncTypeOK, saves' \in 0 .. MaxSaves, saves <= saves',
           worktree' \in SUBSET (1 .. saves'), stashed' \cup backedUp' \cup exposed' \subseteq 1 .. saves',
           commits' \in Seq(Commits),
           \A c \in Revisions' : /\ commits'[c].history \subseteq 1 .. c
                                 /\ commits'[c].tree \subseteq 1 .. saves',
           Revisions \subseteq Revisions', head' \in Revisions', origin' \in Revisions',
           revision' \in {revision, looking, NoRevision}, looking' \in {looking, head, NoRevision},
           returned' \in {returned, head, NoRevision},
           committing' \in {"", "committed", "pushed"}, pulled' \in BOOLEAN,
           \/ sync' = sync
           \/ sync' = NoSync
           \/ sync' \in SyncCalls /\ sync'.target \in Revisions' /\ sync'.current \in Revisions'
    PROVE  GitSyncTypeOK'
<1> DEFINE r == Revisions
           q == Revisions'
<1>1. /\ head \in r /\ (revision # NoRevision => revision \in r)
      /\ (looking # NoRevision => looking \in r) /\ (returned # NoRevision => returned \in r)
    BY Numbers
<1>2. Len(commits') \in Nat /\ q = 1 .. Len(commits') /\ r \subseteq q
    BY LenProperties DEF Revisions
<1>3. (\A c \in r : c \in 0 .. Len(commits')) /\ NoRevision \in 0 .. Len(commits')
    <2> HIDE DEF r, q
    <2> QED BY <1>2, OrNone DEF NoRevision
<1>4. revision' \in 0 .. Len(commits') /\ looking' \in 0 .. Len(commits') /\ returned' \in 0 .. Len(commits')
    <2> HIDE DEF r, q
    <2>1. /\ revision \in 0 .. Len(commits') /\ looking \in 0 .. Len(commits')
          /\ returned \in 0 .. Len(commits') /\ head \in 0 .. Len(commits') /\ NoRevision \in 0 .. Len(commits')
        BY <1>1, <1>3
    <2> QED BY <2>1
<1>5. /\ sync' \in SyncCalls
      /\ sync'.at # "idle" => sync'.target \in Revisions' /\ sync'.current \in Revisions'
    <2>1. /\ sync \in SyncCalls
          /\ sync.at # "idle" => sync.target \in r /\ sync.current \in r
        BY DEF GitSyncTypeOK
    <2>2. CASE sync' = sync
        BY <1>2, <2>1, <2>2
    <2>3. CASE sync' = NoSync
        BY <2>3 DEF NoSync, NoRevision, SyncCalls
    <2> QED BY <2>2, <2>3
<1> QED BY <1>4, <1>5 DEF GitSyncTypeOK

(* The types a step that leaves the commits and the saves starts from. *)
LEMMA TypesNow ==
    ASSUME GitSyncTypeOK
    PROVE  /\ saves \in 0 .. MaxSaves /\ saves <= saves /\ commits \in Seq(Commits)
           /\ worktree \in SUBSET (1 .. saves) /\ stashed \in SUBSET (1 .. saves)
           /\ backedUp \in SUBSET (1 .. saves) /\ exposed \in SUBSET (1 .. saves)
           /\ committing \in {"", "committed", "pushed"} /\ pulled \in BOOLEAN
           /\ sync \in SyncCalls
           /\ sync.at # "idle" => sync.target \in Revisions /\ sync.current \in Revisions
<1>1. saves <= saves
    BY Counts
<1> QED BY <1>1 DEF GitSyncTypeOK

(* Steps that only look at the repository. *)
LEMMA RepoKept ==
    ASSUME HistoryInv, TreeInv, NothingLost, UNCHANGED repo, UNCHANGED <<saves, exposed>>
    PROVE  HistoryInv' /\ TreeInv' /\ NothingLost'
BY DEF repo, HistoryInv, TreeInv, NothingLost, Revisions

(* The cache stays right when the revisions there are stay, when it and    *)
(* the thread with its lock get what they had, nothing or the branch, and  *)
(* when the branch does not move back behind the commit that returned.     *)
LEMMA CacheKept ==
    ASSUME GitSyncTypeOK, CacheInv, \A c \in Revisions : commits'[c] = commits[c],
           returned' = returned,
           revision' \in {revision, looking, NoRevision}, looking' \in {looking, head, NoRevision},
           returned # NoRevision => NotBefore(head)'
    PROVE  CacheInv'
<1> SUFFICES ASSUME returned # NoRevision
             PROVE  NotBefore(head)' /\ NotBefore(revision)' /\ NotBefore(looking)'
    BY DEF CacheInv
<1>1. returned \in Revisions
    BY Numbers
<1>2. commits'[returned'] = commits[returned]
    BY <1>1
<1>3. NotBefore(head) /\ NotBefore(revision) /\ NotBefore(looking) /\ NotBefore(NoRevision)
    BY DEF CacheInv, NotBefore
<1> QED BY <1>2, <1>3 DEF NotBefore, IsAncestor

(* A new commit is no part of any earlier history. *)
LEMMA NewIsNotBefore ==
    ASSUME GitSyncTypeOK, \A c \in Revisions : commits'[c] = commits[c],
           returned' = returned, returned # NoRevision, Len(commits) \in Nat
    PROVE  Len(commits) + 1 \notin commits'[returned'].history
<1>1. returned \in Revisions
    BY Numbers
<1>2. commits[returned].history \subseteq Revisions
    BY <1>1, Contents
<1>3. Len(commits) + 1 \notin Revisions
    BY DEF Revisions
<1> QED BY <1>1, <1>2, <1>3

-----------------------------------------------------------------------------
(* One lemma per action. *)

LEMMA InitInv == GitSyncInit => Invariant
<1> SUFFICES ASSUME GitSyncInit PROVE Invariant
    OBVIOUS
<1> DEFINE first == [history |-> {1}, tree |-> {}]
<1>1. commits = <<first>> /\ first \in Commits
    <2>1. {1} \in SUBSET Nat /\ {} \in SUBSET Nat
        OBVIOUS
    <2> QED BY <2>1 DEF GitSyncInit, Commits
<1>2. commits \in Seq(Commits) /\ Len(commits) = 1 /\ commits[1] = first
    BY <1>1
<1>3. Revisions = {1} /\ 1 .. 1 = {1} /\ 1 \in 0 .. 1 /\ 0 \in 0 .. 1 /\ 1 .. 0 = {}
    BY <1>2 DEF Revisions
<1>4. \A c \in Revisions : c = 1 /\ commits[c].history = {1} /\ commits[c].tree = {}
    BY <1>2, <1>3
<1>5. head = 1 /\ origin = 1 /\ worktree = {} /\ saves = 0 /\ exposed = {} /\ stashed = {} /\ backedUp = {}
    BY DEF GitSyncInit
<1>6. sync = NoSync /\ sync.at = "idle" /\ revision = 0 /\ looking = 0 /\ returned = 0
    BY DEF GitSyncInit, NoSync, NoRevision
<1>7. GitSyncTypeOK
    <2>1. saves \in 0 .. MaxSaves
        BY <1>5, GitSyncBounds
    <2>2. worktree \cup stashed \cup backedUp \cup exposed \subseteq 1 .. saves
        BY <1>5
    <2>3. \A c \in Revisions : commits[c].history \subseteq 1 .. c /\ commits[c].tree \subseteq 1 .. saves
        BY <1>3, <1>4
    <2>4. committing \in {"", "committed", "pushed"} /\ pulled \in BOOLEAN /\ sync \in SyncCalls
        BY DEF GitSyncInit, NoSync, NoRevision, SyncCalls
    <2> QED BY <1>2, <1>3, <1>5, <1>6, <2>1, <2>2, <2>3, <2>4 DEF GitSyncTypeOK
<1>8. HistoryInv
    BY <1>3, <1>4 DEF HistoryInv
<1>9. TreeInv /\ SyncInv /\ NothingLost /\ CacheInv
    BY <1>3, <1>4, <1>5, <1>6 DEF TreeInv, SyncInv, NothingLost, CacheInv, NoRevision
<1> QED BY <1>7, <1>8, <1>9 DEF Invariant

(* One more save: its number is new. *)
LEMMA OneMore ==
    ASSUME GitSyncTypeOK, saves < MaxSaves
    PROVE  /\ saves + 1 \in 0 .. MaxSaves /\ saves + 1 \in Nat /\ saves <= saves + 1
           /\ 1 .. (saves + 1) = (1 .. saves) \cup {saves + 1}
BY Counts

LEMMA SaveInv == ASSUME Invariant, save_file PROVE Invariant'
<1> USE DEF Invariant
<1>1. /\ saves' = saves + 1 /\ saves' \in 0 .. MaxSaves /\ saves <= saves'
      /\ 1 .. saves' = (1 .. saves) \cup {saves'}
    BY OneMore DEF save_file
<1>2. /\ UNCHANGED <<commits, head, origin, stashed, backedUp, revision, looking, committing, pulled, sync, returned>>
      /\ worktree' = worktree \cup {saves'} /\ Revisions' = Revisions
      /\ exposed \subseteq exposed' /\ exposed' \subseteq exposed \cup {saves'}
      /\ sync.at # "idle" => exposed' = exposed \cup {saves'}
    BY DEF save_file, cached, Revisions
<1>3. GitSyncTypeOK'
    <2>1. /\ worktree' \in SUBSET (1 .. saves')
          /\ stashed' \cup backedUp' \cup exposed' \subseteq 1 .. saves'
        BY <1>1, <1>2, TypesNow
    <2>2. \A c \in Revisions' : commits'[c].history \subseteq 1 .. c /\ commits'[c].tree \subseteq 1 .. saves'
        BY <1>1, <1>2, Contents
    <2> HIDE DEF Invariant
    <2>3. GitSyncTypeOK
        BY DEF Invariant
    <2> QED BY <1>1, <1>2, <2>1, <2>2, <2>3, TypesKept, TypesNow, Numbers
<1>4. HistoryInv' /\ TreeInv'
    BY <1>2 DEF HistoryInv, TreeInv
<1>5. SyncInv'
    BY <1>2 DEF SyncInv
<1>6. NothingLost'
    BY <1>1, <1>2 DEF NothingLost
<1>7. CacheInv'
    BY <1>2 DEF CacheInv, NotBefore, IsAncestor
<1> QED BY <1>3, <1>4, <1>5, <1>6, <1>7

LEMMA StepOfCommit ==
    ASSUME Invariant, GitCommit, UNCHANGED <<cached, sync, ghosts, pulled>>, committing' \in {"", "committed", "pushed"},
           origin' = origin \/ (origin' = head' /\ IsAncestor(origin, head))
    PROVE  Invariant'
<1> DEFINE n == Len(commits) + 1
<1>1. GitSyncTypeOK /\ HistoryInv /\ TreeInv /\ SyncInv /\ NothingLost /\ CacheInv
    BY DEF Invariant
<1>2. /\ saves' = saves /\ saves' \in Nat /\ saves <= saves' /\ head \in Revisions
      /\ worktree \in SUBSET (1 .. saves') /\ commits[head].tree \subseteq worktree
      /\ commits' = NewCommit(head, worktree)
    BY <1>1, Counts, TypesNow, Numbers DEF ghosts, GitCommit, TreeInv
<1>3. /\ Len(commits') = n /\ Revisions' = Revisions \cup {n} /\ n \notin Revisions
      /\ \A c \in Revisions : commits'[c] = commits[c]
      /\ commits'[n].tree = worktree
      /\ commits' \in Seq(Commits)
      /\ \A c \in Revisions' : commits'[c].history \subseteq 1 .. c /\ commits'[c].tree \subseteq 1 .. saves'
      /\ HistoryInv'
    BY <1>1, <1>2, NewCommitIs
<1>4. /\ head' = n
      /\ UNCHANGED <<worktree, stashed, backedUp, revision, looking, sync, saves, returned, exposed, pulled>>
    BY DEF GitCommit, cached, ghosts
<1>5. origin \in Revisions /\ origin' \in {origin, n}
    BY <1>1, <1>4, Numbers
<1>6. GitSyncTypeOK'
    BY <1>1, <1>2, <1>3, <1>4, <1>5, TypesKept, TypesNow
<1>7. TreeInv'
    BY <1>3, <1>4 DEF TreeInv
<1>8. SyncInv'
    BY <1>1, <1>2, <1>3, <1>4, TypesNow DEF SyncInv
<1>9. NothingLost'
    <2>1. commits[origin].tree \subseteq commits[head].tree \/ origin' = origin
        BY <1>1, <1>2 DEF IsAncestor, HistoryInv
    <2>2. commits'[origin'].tree = commits[origin].tree \/ commits[origin].tree \subseteq worktree
        BY <1>2, <1>3, <1>5, <2>1
    <2> QED BY <1>1, <1>2, <1>3, <1>4, <2>2 DEF NothingLost
<1>10. CacheInv'
    <2>1. returned # NoRevision => NotBefore(head)'
        BY <1>1, <1>3, <1>4, NewIsNotBefore, Counts DEF NotBefore, IsAncestor
    <2> QED BY <1>1, <1>3, <1>4, <2>1, CacheKept
<1> QED BY <1>3, <1>6, <1>7, <1>8, <1>9, <1>10 DEF Invariant

LEMMA CommitInv == ASSUME Invariant, commit_on_save \/ CommitElsewhere PROVE Invariant'
<1>1. CASE commit_on_save
    BY <1>1, StepOfCommit DEF commit_on_save
<1>2. CASE CommitElsewhere
    <2>1. committing' \in {"", "committed", "pushed"}
        BY <1>2, TypesNow DEF CommitElsewhere, Invariant
    <2> QED BY <1>2, <2>1, StepOfCommit DEF CommitElsewhere
<1> QED BY <1>1, <1>2

LEMMA PushInv == ASSUME Invariant, Push PROVE Invariant'
<1>1. GitSyncTypeOK /\ HistoryInv /\ TreeInv /\ SyncInv /\ NothingLost /\ CacheInv
    BY DEF Invariant
<1>2. /\ UNCHANGED <<worktree, commits, head, stashed, backedUp, revision, looking, pulled, sync, saves, returned, exposed>>
      /\ Revisions' = Revisions /\ origin' = head /\ IsAncestor(origin, head) /\ committing' = "pushed"
    BY DEF Push, cached, ghosts, Revisions
<1>3. GitSyncTypeOK'
    BY <1>1, <1>2, TypesKept, TypesNow, Numbers, Contents
<1>4. HistoryInv' /\ TreeInv' /\ SyncInv'
    BY <1>1, <1>2 DEF HistoryInv, TreeInv, SyncInv
<1>5. NothingLost'
    <2>1. commits[origin].tree \subseteq commits[head].tree
        BY <1>1, <1>2, Numbers DEF IsAncestor, HistoryInv
    <2> QED BY <1>1, <1>2, <2>1 DEF NothingLost
<1>6. CacheInv'
    BY <1>1, <1>2 DEF CacheInv, NotBefore, IsAncestor
<1> QED BY <1>3, <1>4, <1>5, <1>6 DEF Invariant

LEMMA PushElsewhereInv == ASSUME Invariant, PushElsewhere PROVE Invariant'
<1> DEFINE n == Len(commits) + 1
           t == commits[origin].tree \cup {saves + 1}
<1>1. GitSyncTypeOK /\ HistoryInv /\ TreeInv /\ SyncInv /\ NothingLost /\ CacheInv
    BY DEF Invariant
<1>2. /\ saves' = saves + 1 /\ saves' \in 0 .. MaxSaves /\ saves' \in Nat /\ saves <= saves'
      /\ 1 .. saves' = (1 .. saves) \cup {saves'} /\ Len(commits) \in Nat
    BY <1>1, OneMore, Counts DEF PushElsewhere
<1>3. origin \in Revisions /\ head \in Revisions /\ t \in SUBSET (1 .. saves') /\ commits[origin].tree \subseteq t
    BY <1>1, <1>2, Numbers, Contents
<1>4. commits' = NewCommit(origin, t)
    BY DEF PushElsewhere
<1>5. /\ Len(commits') = n /\ Revisions' = Revisions \cup {n} /\ n \notin Revisions
      /\ \A c \in Revisions : commits'[c] = commits[c]
      /\ commits'[n].tree = t
      /\ commits' \in Seq(Commits)
      /\ \A c \in Revisions' : commits'[c].history \subseteq 1 .. c /\ commits'[c].tree \subseteq 1 .. saves'
      /\ HistoryInv'
    BY <1>1, <1>2, <1>3, <1>4, NewCommitIs
<1>6. /\ origin' = n
      /\ UNCHANGED <<worktree, head, stashed, backedUp, revision, looking, committing, pulled, sync, returned, exposed>>
    BY DEF PushElsewhere, cached
<1>7. GitSyncTypeOK'
    <2>1. /\ worktree' \in SUBSET (1 .. saves')
          /\ stashed' \cup backedUp' \cup exposed' \subseteq 1 .. saves'
        BY <1>1, <1>2, <1>6, TypesNow
    <2> QED BY <1>1, <1>2, <1>3, <1>5, <1>6, <2>1, TypesKept, TypesNow
<1>8. TreeInv' /\ SyncInv'
    BY <1>1, <1>3, <1>5, <1>6, TypesNow DEF TreeInv, SyncInv
<1>9. NothingLost'
    BY <1>1, <1>2, <1>3, <1>5, <1>6 DEF NothingLost
<1>10. CacheInv'
    <2>1. returned # NoRevision => NotBefore(head)'
        BY <1>1, <1>5, <1>6, Numbers DEF CacheInv, NotBefore, IsAncestor
    <2> QED BY <1>1, <1>5, <1>6, <2>1, CacheKept
<1> QED BY <1>5, <1>7, <1>8, <1>9, <1>10 DEF Invariant

(* A step that leaves the repository as it is. *)
LEMMA StepOfCache ==
    ASSUME Invariant, UNCHANGED <<repo, saves, exposed>>,
           revision' \in {revision, looking, NoRevision}, looking' \in {looking, head, NoRevision},
           returned' \in {returned, head, NoRevision},
           committing' \in {committing, ""}, pulled' \in {pulled, FALSE},
           \/ sync' = sync
           \/ sync' = NoSync
           \/ /\ sync' \in SyncCalls /\ sync'.target \in Revisions /\ sync'.current \in Revisions
              /\ sync'.at = "read" /\ (~sync'.dirty => worktree = commits[head].tree),
           CacheInv'
    PROVE  Invariant'
<1>1. GitSyncTypeOK /\ HistoryInv /\ TreeInv /\ SyncInv /\ NothingLost /\ CacheInv
    BY DEF Invariant
<1>2. UNCHANGED <<worktree, commits, head, origin, stashed, backedUp, saves, exposed>> /\ Revisions' = Revisions
    BY DEF repo, Revisions
<1>3. GitSyncTypeOK'
    <2>1. committing' \in {"", "committed", "pushed"} /\ pulled' \in BOOLEAN
        BY <1>1, TypesNow
    <2>2. \A c \in Revisions' : commits'[c].history \subseteq 1 .. c /\ commits'[c].tree \subseteq 1 .. saves'
        BY <1>1, <1>2, Contents
    <2>3. \/ sync' = sync
          \/ sync' = NoSync
          \/ sync' \in SyncCalls /\ sync'.target \in Revisions' /\ sync'.current \in Revisions'
        BY <1>2
    <2> QED BY <1>1, <1>2, <2>1, <2>2, <2>3, TypesKept, TypesNow, Numbers
<1>4. HistoryInv' /\ TreeInv' /\ NothingLost'
    BY <1>1, RepoKept
<1>5. SyncInv'
    <2>1. CASE sync' = sync
        BY <1>1, <1>2, <2>1 DEF SyncInv
    <2>2. CASE sync' = NoSync
        BY <2>2 DEF SyncInv, NoSync
    <2>3. CASE sync'.at = "read" /\ (~sync'.dirty => worktree = commits[head].tree)
        BY <1>2, <2>3 DEF SyncInv
    <2> QED BY <2>1, <2>2, <2>3
<1> QED BY <1>3, <1>4, <1>5 DEF Invariant

(* get_current_revision, the end of it, the cache's time to live, a push   *)
(* that fails, and a webhook's return.                                     *)
LEMMA LookInv ==
    ASSUME Invariant,
           get_current_revision \/ StoreRevision \/ RevisionExpires \/ PushFails \/ WebHookReturns
    PROVE  Invariant'
<1>1. /\ UNCHANGED <<repo, sync, ghosts>> /\ committing' \in {committing, ""} /\ pulled' \in {pulled, FALSE}
      /\ revision' \in {revision, looking, NoRevision} /\ looking' \in {looking, head, NoRevision}
    BY DEF get_current_revision, StoreRevision, RevisionExpires, PushFails, WebHookReturns, cached,
           clear_current_revision_cache
<1>2. UNCHANGED <<repo, sync, saves, returned, exposed, commits, head>>
    BY <1>1 DEF ghosts, repo
<1>3. CacheInv'
    <2>1. returned # NoRevision => NotBefore(head)'
        BY <1>2 DEF Invariant, CacheInv, NotBefore, IsAncestor
    <2> QED BY <1>1, <1>2, <2>1, CacheKept DEF Invariant
<1> QED BY <1>1, <1>2, <1>3, StepOfCache

(* A commit that returns has cleared the cache, and nobody was looking. *)
LEMMA CommitReturnsInv == ASSUME Invariant, CommitReturns PROVE Invariant'
<1>1. /\ UNCHANGED <<repo, pulled, sync, saves, exposed>> /\ head' = head
      /\ committing' = "" /\ returned' = head
      /\ revision' = NoRevision /\ looking' = looking /\ looking = NoRevision
    BY DEF CommitReturns, clear_current_revision_cache, repo
<1>2. CacheInv'
    BY <1>1 DEF CacheInv, NotBefore
<1> QED BY <1>1, <1>2, StepOfCache

LEMMA ForceSyncInv ==
    ASSUME Invariant, NEW c \in Revisions, force_sync_to_webhook_revision(c)
    PROVE  Invariant'
<1>1. /\ UNCHANGED <<repo, revision, looking, committing, pulled, saves, returned, exposed, commits, head>>
      /\ sync' = [at |-> "read", target |-> c, current |-> revision, dirty |-> Dirty]
      /\ revision # NoRevision
    BY DEF force_sync_to_webhook_revision, repo, cached, ghosts
<1>2. revision \in Revisions
    BY <1>1, Numbers DEF Invariant
<1>3. /\ sync'.at = "read" /\ sync'.target = c /\ sync'.current = revision /\ sync'.dirty = Dirty
      /\ sync' \in SyncCalls
    <2>1. c \in Nat /\ revision \in Nat
        BY <1>2, Counts DEF Revisions, Invariant
    <2>2. Dirty \in BOOLEAN
        BY DEF Dirty
    <2> QED BY <1>1, <2>1, <2>2 DEF SyncCalls
<1>4. CacheInv'
    BY <1>1 DEF Invariant, CacheInv, NotBefore, IsAncestor
<1>5. ~sync'.dirty => worktree = commits[head].tree
    BY <1>3 DEF Dirty
<1> QED BY <1>1, <1>2, <1>3, <1>4, <1>5, StepOfCache

LEMMA SyncFailsInv == ASSUME Invariant, SyncFails PROVE Invariant'
<1>1. /\ UNCHANGED <<repo, revision, looking, committing, pulled, saves, returned, exposed, commits, head>>
      /\ sync' = NoSync
    BY DEF SyncFails, repo, cached, ghosts
<1>2. CacheInv'
    BY <1>1 DEF Invariant, CacheInv, NotBefore, IsAncestor
<1> QED BY <1>1, <1>2, StepOfCache

(* A revision that has what the branch has is not before the commit that   *)
(* returned either: histories are transitive, and no revision comes before *)
(* itself.                                                                 *)
LEMMA AfterIsNotBefore ==
    ASSUME GitSyncTypeOK, HistoryInv, returned # NoRevision, NotBefore(head),
           NEW c \in Revisions, head \in commits[c].history
    PROVE  NotBefore(c)
<1>1. head \in Revisions /\ returned \in Revisions
    BY Numbers
<1>2. SUFFICES ASSUME c \in commits[returned].history PROVE c = returned
    BY DEF NotBefore, IsAncestor
<1>3. head \in commits[returned].history
    BY <1>1, <1>2 DEF HistoryInv
<1>4. head = returned
    <2>1. head # NoRevision
        BY <1>1, Counts DEF Revisions, NoRevision
    <2> QED BY <1>3, <2>1 DEF NotBefore, IsAncestor
<1>5. returned \in 1 .. c /\ c \in 1 .. returned
    BY <1>1, <1>2, <1>4, Contents
<1>6. returned \in Nat /\ c \in Nat
    BY <1>1, Counts DEF Revisions
<1> QED BY <1>5, <1>6

(* What a pull makes of the branch: nothing the branch had is gone. *)
LEMMA WebHookInv ==
    ASSUME Invariant, NEW c \in Revisions, handle_web_hook(c)
    PROVE  Invariant'
<1> DEFINE n == Len(commits) + 1
           t == commits[origin].tree \cup commits[head].tree
<1>1. GitSyncTypeOK /\ HistoryInv /\ TreeInv /\ SyncInv /\ NothingLost /\ CacheInv
    BY DEF Invariant
<1>2. /\ UNCHANGED <<origin, stashed, backedUp, revision, looking, committing, sync, saves, returned, exposed>>
      /\ worktree = commits[head].tree /\ worktree' = commits'[head'].tree /\ pulled' = TRUE
    BY DEF handle_web_hook, cached, ghosts, Dirty
<1>3. head \in Revisions /\ origin \in Revisions /\ t \in SUBSET (1 .. saves') /\ saves' \in Nat /\ saves <= saves'
    BY <1>1, <1>2, Numbers, Contents, Counts
<1>4. /\ Revisions \subseteq Revisions' /\ head' \in Revisions'
      /\ \A d \in Revisions : commits'[d] = commits[d]
      /\ commits' \in Seq(Commits)
      /\ \A d \in Revisions' : commits'[d].history \subseteq 1 .. d /\ commits'[d].tree \subseteq 1 .. saves'
      /\ HistoryInv'
      /\ commits[head].tree \subseteq commits'[head'].tree
      /\ returned # NoRevision => NotBefore(head)'
    <2>1. CASE IsAncestor(head, origin) /\ head' = origin /\ UNCHANGED commits
        <3>1. Revisions' = Revisions /\ HistoryInv'
            BY <1>1, <2>1 DEF Revisions, HistoryInv
        <3>2. commits[head].tree \subseteq commits[origin].tree
            BY <1>1, <1>3, <2>1 DEF HistoryInv, IsAncestor
        <3>3. returned # NoRevision => NotBefore(origin)
            BY <1>1, <1>3, <2>1, AfterIsNotBefore DEF CacheInv, IsAncestor
        <3>4. returned # NoRevision => NotBefore(head)'
            BY <1>2, <2>1, <3>3 DEF NotBefore, IsAncestor
        <3> QED BY <1>1, <1>2, <1>3, <2>1, <3>1, <3>2, <3>4, Contents, TypesNow
    <2>2. CASE UNCHANGED <<head, commits>>
        <3>1. Revisions' = Revisions /\ HistoryInv'
            BY <1>1, <2>2 DEF Revisions, HistoryInv
        <3>2. returned # NoRevision => NotBefore(head)'
            BY <1>1, <1>2, <2>2 DEF CacheInv, NotBefore, IsAncestor
        <3> QED BY <1>1, <1>2, <1>3, <2>2, <3>1, <3>2, Contents, TypesNow
    <2>3. CASE head' = n /\ commits' = NewCommit(origin, t)
        <3>1. /\ Revisions' = Revisions \cup {n} /\ n \notin Revisions
              /\ \A d \in Revisions : commits'[d] = commits[d]
              /\ commits'[n].tree = t
              /\ commits' \in Seq(Commits)
              /\ \A d \in Revisions' : commits'[d].history \subseteq 1 .. d /\ commits'[d].tree \subseteq 1 .. saves'
              /\ HistoryInv'
            BY <1>1, <1>3, <2>3, NewCommitIs
        <3>2. returned # NoRevision => NotBefore(head)'
            BY <1>1, <1>2, <2>3, <3>1, NewIsNotBefore, Counts DEF NotBefore, IsAncestor
        <3> QED BY <2>3, <3>1, <3>2
    <2> QED BY <2>1, <2>2, <2>3 DEF handle_web_hook
<1>5. GitSyncTypeOK'
    <2>1. worktree' \in SUBSET (1 .. saves') /\ origin' \in Revisions' /\ pulled' \in BOOLEAN
        BY <1>2, <1>3, <1>4
    <2> QED BY <1>1, <1>2, <1>3, <1>4, <2>1, TypesKept, TypesNow
<1>6. TreeInv'
    BY <1>2 DEF TreeInv
<1>7. SyncInv'
    BY <1>1, <1>2, <1>4, TypesNow DEF SyncInv
<1>8. NothingLost'
    BY <1>1, <1>2, <1>3, <1>4 DEF NothingLost
<1>9. CacheInv'
    BY <1>1, <1>2, <1>4, CacheKept
<1> QED BY <1>4, <1>5, <1>6, <1>7, <1>8, <1>9 DEF Invariant

-----------------------------------------------------------------------------
(* The steps of a force sync. *)

(* They make no commit. *)
LEMMA StepOfSync ==
    ASSUME Invariant, UNCHANGED <<commits, origin, committing, pulled, saves>>,
           worktree' \in SUBSET (1 .. saves), stashed' \cup backedUp' \cup exposed' \subseteq 1 .. saves,
           head' \in Revisions, sync.at # "idle",
           \/ sync' = NoSync
           \/ \E s \in {"stashed", "preserved", "reset"} : sync' = [sync EXCEPT !.at = s],
           revision' \in {revision, NoRevision}, looking' = looking, returned' \in {returned, NoRevision},
           returned' # NoRevision => head' = head,
           commits[head'].tree \subseteq worktree', NothingLost', SyncInv'
    PROVE  Invariant'
<1>1. GitSyncTypeOK /\ HistoryInv /\ CacheInv
    BY DEF Invariant
<1>2. Revisions' = Revisions
    BY DEF Revisions
<1>3. GitSyncTypeOK'
    <2>1. sync' = NoSync \/ (sync' \in SyncCalls /\ sync'.target \in Revisions' /\ sync'.current \in Revisions')
        <3>1. sync.target \in Revisions /\ sync.current \in Revisions /\ sync \in SyncCalls
            BY <1>1, TypesNow
        <3>2. ASSUME NEW s \in {"stashed", "preserved", "reset"}, sync' = [sync EXCEPT !.at = s]
              PROVE  sync'.target = sync.target /\ sync'.current = sync.current /\ sync' \in SyncCalls
            BY <3>1, <3>2 DEF SyncCalls
        <3> QED BY <1>2, <3>1, <3>2
    <2>2. \A c \in Revisions' : commits'[c].history \subseteq 1 .. c /\ commits'[c].tree \subseteq 1 .. saves'
        BY <1>1, <1>2, Contents
    <2> QED BY <1>1, <1>2, <2>1, <2>2, TypesKept, TypesNow, Numbers
<1>4. HistoryInv' /\ TreeInv'
    BY <1>1, <1>2 DEF HistoryInv, TreeInv
<1>5. CacheInv'
    <2>1. CASE returned' = NoRevision
        BY <2>1 DEF CacheInv
    <2>2. CASE returned' # NoRevision
        BY <1>1, <2>2 DEF CacheInv, NotBefore, IsAncestor
    <2> QED BY <2>1, <2>2
<1> QED BY <1>3, <1>4, <1>5 DEF Invariant

LEMMA StashInv == ASSUME Invariant, Stash PROVE Invariant'
<1>1. GitSyncTypeOK /\ TreeInv /\ SyncInv /\ NothingLost
    BY DEF Invariant
<1>2. /\ UNCHANGED <<commits, head, origin, backedUp, revision, looking, committing, pulled, saves, returned, exposed>>
      /\ sync.at = "read" /\ sync' = [sync EXCEPT !.at = "stashed"]
      /\ sync.dirty => /\ stashed' = stashed \cup (worktree \ commits[head].tree)
                       /\ worktree' = commits[head].tree
      /\ ~sync.dirty => UNCHANGED <<stashed, worktree>>
    BY DEF Stash, cached, ghosts
<1>3. sync'.at = "stashed"
    BY <1>1, <1>2, TypesNow DEF SyncCalls
<1>4. /\ worktree \in SUBSET (1 .. saves) /\ stashed \in SUBSET (1 .. saves)
      /\ backedUp \in SUBSET (1 .. saves) /\ exposed \in SUBSET (1 .. saves)
      /\ head \in Revisions /\ commits[head].tree \subseteq worktree
    BY <1>1, TypesNow, Numbers DEF TreeInv
<1>5. worktree' \in SUBSET (1 .. saves) /\ stashed' \cup backedUp' \cup exposed' \subseteq 1 .. saves
    BY <1>2, <1>4
<1>6. commits[head'].tree \subseteq worktree' /\ worktree' \subseteq commits[head].tree \cup stashed' \cup exposed'
    BY <1>1, <1>2, <1>4 DEF SyncInv
<1>7. NothingLost'
    BY <1>1, <1>2, <1>4 DEF NothingLost
<1>8. SyncInv'
    BY <1>2, <1>3, <1>6 DEF SyncInv
<1> QED BY <1>2, <1>4, <1>5, <1>6, <1>7, <1>8, StepOfSync

LEMMA PreserveInv == ASSUME Invariant, preserve_local_state_before_force_sync PROVE Invariant'
<1>1. GitSyncTypeOK /\ HistoryInv /\ TreeInv /\ SyncInv /\ NothingLost
    BY DEF Invariant
<1>2. /\ UNCHANGED <<worktree, commits, head, origin, stashed, revision, looking, committing, pulled, saves, returned, exposed>>
      /\ sync.at = "stashed" /\ sync' = [sync EXCEPT !.at = "preserved"]
      /\ backedUp' = IF sync.current # sync.target /\ ~IsAncestor(sync.current, sync.target)
                     THEN backedUp \cup commits[sync.current].tree ELSE backedUp
    BY DEF preserve_local_state_before_force_sync, cached, ghosts
<1>3. /\ sync'.at = "preserved" /\ sync'.current = sync.current /\ sync'.target = sync.target
      /\ sync.current \in Revisions /\ sync.target \in Revisions
    BY <1>1, <1>2, TypesNow DEF SyncCalls
<1>4. /\ worktree \in SUBSET (1 .. saves) /\ stashed \in SUBSET (1 .. saves)
      /\ backedUp \in SUBSET (1 .. saves) /\ exposed \in SUBSET (1 .. saves)
      /\ head \in Revisions /\ commits[head].tree \subseteq worktree
    BY <1>1, TypesNow, Numbers DEF TreeInv
<1>5. stashed' \cup backedUp' \cup exposed' \subseteq 1 .. saves
    BY <1>1, <1>2, <1>3, <1>4, Contents
<1>6. commits[sync.current].tree \subseteq backedUp' \cup commits[sync.target].tree
    BY <1>1, <1>2, <1>3 DEF HistoryInv, IsAncestor
<1>7. NothingLost'
    BY <1>1, <1>2 DEF NothingLost
<1>8. SyncInv'
    BY <1>1, <1>2, <1>3, <1>6 DEF SyncInv
<1> QED BY <1>2, <1>4, <1>5, <1>7, <1>8, StepOfSync

LEMMA ResetInv == ASSUME Invariant, ResetHard PROVE Invariant'
<1>1. GitSyncTypeOK /\ TreeInv /\ SyncInv /\ NothingLost
    BY DEF Invariant
<1>2. /\ UNCHANGED <<commits, origin, stashed, backedUp, revision, looking, committing, pulled, saves>>
      /\ sync.at = "preserved" /\ sync' = [sync EXCEPT !.at = "reset"]
      /\ head' = sync.target /\ worktree' = commits[sync.target].tree
      /\ exposed' = exposed \cup (commits[head].tree \ commits[sync.current].tree)
      /\ returned' = NoRevision
    BY DEF ResetHard, cached
<1>3. sync'.at = "reset" /\ sync.current \in Revisions /\ sync.target \in Revisions
    BY <1>1, <1>2, TypesNow DEF SyncCalls
<1>4. /\ stashed \in SUBSET (1 .. saves) /\ backedUp \in SUBSET (1 .. saves) /\ exposed \in SUBSET (1 .. saves)
      /\ commits[head].tree \subseteq 1 .. saves /\ commits[sync.target].tree \subseteq 1 .. saves
    BY <1>1, <1>3, TypesNow, Numbers, Contents
<1>5. worktree' \in SUBSET (1 .. saves) /\ stashed' \cup backedUp' \cup exposed' \subseteq 1 .. saves
    BY <1>2, <1>4
<1>6. NothingLost'
    BY <1>1, <1>2 DEF NothingLost, SyncInv
<1>7. SyncInv'
    BY <1>2, <1>3 DEF SyncInv
<1> QED BY <1>2, <1>3, <1>5, <1>6, <1>7, StepOfSync

LEMMA SyncReturnsInv == ASSUME Invariant, SyncReturns PROVE Invariant'
<1>1. GitSyncTypeOK /\ TreeInv /\ SyncInv /\ NothingLost
    BY DEF Invariant
<1>2. /\ UNCHANGED <<commits, head, origin, stashed, backedUp, looking, committing, pulled, saves, returned, exposed>>
      /\ sync.at = "reset" /\ sync' = NoSync /\ revision' = NoRevision
    BY DEF SyncReturns, clear_current_revision_cache, ghosts
<1>3. PICK kept \in SUBSET (worktree \ commits[head].tree) : worktree' = kept \cup (worktree \cap commits[head].tree)
    BY DEF SyncReturns
<1>4. /\ worktree \in SUBSET (1 .. saves) /\ stashed \in SUBSET (1 .. saves)
      /\ backedUp \in SUBSET (1 .. saves) /\ exposed \in SUBSET (1 .. saves)
      /\ head \in Revisions /\ commits[head].tree \subseteq worktree
    BY <1>1, TypesNow, Numbers DEF TreeInv
<1>5. worktree' \in SUBSET (1 .. saves) /\ commits[head].tree \subseteq worktree'
    BY <1>3, <1>4
<1>6. NothingLost'
    BY <1>1, <1>2, <1>5 DEF NothingLost, SyncInv
<1>7. SyncInv'
    BY <1>2 DEF SyncInv, NoSync
<1> QED BY <1>2, <1>4, <1>5, <1>6, <1>7, StepOfSync

-----------------------------------------------------------------------------

LEMMA StepInv == Invariant /\ [GitSyncNext]_gitVars => Invariant'
<1> SUFFICES ASSUME Invariant, [GitSyncNext]_gitVars PROVE Invariant'
    OBVIOUS
<1>1. CASE save_file
    BY <1>1, SaveInv
<1>2. CASE commit_on_save \/ CommitElsewhere
    BY <1>2, CommitInv
<1>3. CASE Push
    BY <1>3, PushInv
<1>4. CASE PushElsewhere
    BY <1>4, PushElsewhereInv
<1>5. CASE get_current_revision \/ StoreRevision \/ RevisionExpires \/ PushFails \/ WebHookReturns
    BY <1>5, LookInv
<1>6. CASE CommitReturns
    BY <1>6, CommitReturnsInv
<1>7. CASE \E c \in Revisions : IsAncestor(c, origin) /\ (handle_web_hook(c) \/ force_sync_to_webhook_revision(c))
    BY <1>7, WebHookInv, ForceSyncInv
<1>8. CASE Stash
    BY <1>8, StashInv
<1>9. CASE preserve_local_state_before_force_sync
    BY <1>9, PreserveInv
<1>10. CASE ResetHard
    BY <1>10, ResetInv
<1>11. CASE SyncReturns
    BY <1>11, SyncReturnsInv
<1>12. CASE SyncFails
    BY <1>12, SyncFailsInv
<1>13. CASE UNCHANGED gitVars
    <2>1. /\ UNCHANGED <<repo, saves, exposed, revision, looking, returned, committing, pulled, sync, commits, head>>
        BY <1>13 DEF gitVars, repo, cached, ghosts
    <2>2. CacheInv'
        BY <2>1 DEF Invariant, CacheInv, NotBefore, IsAncestor
    <2> QED BY <2>1, <2>2, StepOfCache
<1> QED BY <1>1, <1>2, <1>3, <1>4, <1>5, <1>6, <1>7, <1>8, <1>9, <1>10, <1>11, <1>12, <1>13 DEF GitSyncNext

(* Every reachable state of the repository and the cache. *)
THEOREM GitInvariant == GitSyncSpec => []Invariant
BY InitInv, StepInv, PTL DEF GitSyncSpec

(* GitSound: whatever order saves, commits, pushes, webhooks, force syncs  *)
(* and failures come in (git_service), the variables keep their types,     *)
(* every save can be found again unless a force sync was exposed to it,    *)
(* and no revision older than a commit that returned is taken from the     *)
(* cache.                                                                  *)
THEOREM GitIsSound == GitSyncSpec => []GitSound
<1>1. Invariant => CommitsAreSeen
    BY DEF Invariant, CacheInv, CommitsAreSeen, NotBefore
<1>2. Invariant => GitSound
    BY <1>1 DEF Invariant, GitSound
<1> QED BY <1>2, GitInvariant, PTL

(* What a force sync puts a backup branch on: when it is about to reset    *)
(* the branch, every save of the revision it took from the cache is in the *)
(* target or in a backup branch, and every other save of the working tree  *)
(* in the branch, in the stash or exposed                                  *)
(* (_preserve_local_state_before_force_sync).                              *)
THEOREM ResetIsPrepared ==
    GitSyncSpec =>
      [](sync.at = "preserved" =>
            /\ commits[sync.current].tree \subseteq backedUp \cup commits[sync.target].tree
            /\ worktree \subseteq commits[head].tree \cup stashed \cup exposed)
<1>1. Invariant => (sync.at = "preserved" =>
            /\ commits[sync.current].tree \subseteq backedUp \cup commits[sync.target].tree
            /\ worktree \subseteq commits[head].tree \cup stashed \cup exposed)
    BY DEF Invariant, SyncInv
<1> QED BY <1>1, GitInvariant, PTL

==============================================================================
