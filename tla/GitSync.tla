------------------------------ MODULE GitSync -------------------------------
(***************************************************************************)
(* The git repository of the process models (git_service): saves that are  *)
(* committed and pushed, the webhooks that pull or force the repository to *)
(* a revision, and the cache of the current revision.                      *)
(*                                                                         *)
(* A save is a number; a tree is the set of saves it holds, so that merges *)
(* are unions (conflicts are left out, a git command that fails is not).   *)
(* One backend process is modelled with its cache (of the long revision;   *)
(* the short one is a second key that behaves alike); another process on   *)
(* the same directory commits without clearing it.                         *)
(***************************************************************************)
EXTENDS Naturals, Sequences

CONSTANTS MaxSaves,    \* bound: saves, here and at the remote
          MaxCommits   \* bound: commits

ASSUME GitSyncBounds == MaxSaves \in Nat /\ MaxCommits \in Nat \ {0}

VARIABLES worktree,    \* saves in the working tree
          commits,     \* every commit: its tree, and the revisions up to it
          head, origin,\* the local branch, and the branch at the remote
          stashed,     \* saves in the stash
          backedUp,    \* saves of the backup branches
          revision,    \* _CURRENT_REVISION_CACHE
          looking,     \* a thread inside get_current_revision, with the cache's lock
          committing,  \* a thread of this process inside commit: its step
          pulled,      \* a thread between its pull and the end of handle_web_hook
          sync,        \* a thread inside force_sync_to_webhook_revision
          saves,       \* ghost: number of saves
          returned,    \* ghost: head when a commit of this process last returned
          exposed      \* ghost: saves that a force sync may take away

repo    == <<worktree, commits, head, origin, stashed, backedUp>>
cached  == <<revision, looking>>
ghosts  == <<saves, returned, exposed>>
gitVars == <<repo, cached, committing, pulled, sync, ghosts>>

NoRevision == 0
NoSync     == [at |-> "idle", target |-> NoRevision, current |-> NoRevision, dirty |-> FALSE]
Revisions  == 1 .. Len(commits)
Commits    == [history : SUBSET Nat, tree : SUBSET Nat]
SyncCalls  == [at : {"idle", "read", "stashed", "preserved", "reset"},
               target : Nat, current : Nat, dirty : BOOLEAN]

(* A revision numbers the commits; its history leads up to it. *)
GitSyncTypeOK ==
    /\ saves \in 0 .. MaxSaves
    /\ worktree \cup stashed \cup backedUp \cup exposed \subseteq 1 .. saves
    /\ commits \in Seq(Commits)
    /\ \A c \in Revisions : /\ commits[c].history \subseteq 1 .. c
                            /\ commits[c].tree \subseteq 1 .. saves
    /\ head \in Revisions /\ origin \in Revisions
    /\ revision \in 0 .. Len(commits) /\ looking \in 0 .. Len(commits) /\ returned \in 0 .. Len(commits)
    /\ committing \in {"", "committed", "pushed"} /\ pulled \in BOOLEAN
    /\ sync \in SyncCalls
    /\ sync.at # "idle" => sync.target \in Revisions /\ sync.current \in Revisions

GitSyncInit ==
    /\ worktree = {} /\ commits = <<[history |-> {1}, tree |-> {}]>> /\ head = 1 /\ origin = 1
    /\ stashed = {} /\ backedUp = {}
    /\ revision = NoRevision /\ looking = NoRevision
    /\ committing = "" /\ pulled = FALSE /\ sync = NoSync
    /\ saves = 0 /\ returned = NoRevision /\ exposed = {}

(* merge-base --is-ancestor *)
IsAncestor(a, b) == a \in commits[b].history

(* The next revision, on top of another one. *)
NewCommit(parent, tree) ==
    Append(commits, [history |-> commits[parent].history \cup {Len(commits) + 1}, tree |-> tree])

Dirty == worktree # commits[head].tree

-----------------------------------------------------------------------------
(* Saves and commits *)

(* A user saves a file of a process model. *)
save_file ==
    /\ saves < MaxSaves
    /\ saves' = saves + 1 /\ worktree' = worktree \cup {saves + 1}
    /\ exposed' = IF sync.at = "idle" THEN exposed ELSE exposed \cup {saves + 1}
    /\ UNCHANGED <<commits, head, origin, stashed, backedUp, cached, committing, pulled, sync, returned>>

(* git_commit_bpmn_models_repo, under its file lock: git add, git commit.  *)
(* When nothing changed the script ends there.                             *)
GitCommit ==
    /\ Dirty /\ Len(commits) < MaxCommits
    /\ commits' = NewCommit(head, worktree) /\ head' = Len(commits) + 1
    /\ UNCHANGED <<worktree, stashed, backedUp>>

commit_on_save ==
    /\ committing = "" /\ GitCommit /\ committing' = "committed"
    /\ UNCHANGED <<origin, cached, pulled, sync, ghosts>>

(* A bug: somebody else's commits at the remote are no obstacle. *)
PushForced ==
    /\ committing = "committed" /\ origin' = head /\ committing' = "pushed"
    /\ UNCHANGED <<worktree, commits, head, stashed, backedUp, cached, pulled, sync, ghosts>>

(* git push *)
Push ==
    /\ committing = "committed" /\ IsAncestor(origin, head)
    /\ origin' = head /\ committing' = "pushed"
    /\ UNCHANGED <<worktree, commits, head, stashed, backedUp, cached, pulled, sync, ghosts>>

(* The push is refused, or the network is down: GitCommandError, and the   *)
(* cache is not cleared.                                                   *)
PushFails ==
    /\ committing = "committed" /\ committing' = ""
    /\ UNCHANGED <<repo, cached, pulled, sync, ghosts>>

(* Another backend process commits and pushes. *)
CommitElsewhere ==
    /\ committing # "committed" /\ GitCommit /\ IsAncestor(origin, head) /\ origin' = head'
    /\ UNCHANGED <<cached, committing, pulled, sync, ghosts>>

(* Somebody else pushes to the remote. *)
PushElsewhere ==
    /\ saves < MaxSaves /\ Len(commits) < MaxCommits /\ saves' = saves + 1
    /\ commits' = NewCommit(origin, commits[origin].tree \cup {saves + 1})
    /\ origin' = Len(commits) + 1
    /\ UNCHANGED <<worktree, head, stashed, backedUp, cached, committing, pulled, sync, returned, exposed>>

-----------------------------------------------------------------------------
(* The current revision.  The cache's lock is held from the lookup to the  *)
(* store; to clear the cache takes it too.                                 *)

get_current_revision ==
    /\ looking = NoRevision /\ revision = NoRevision
    /\ looking' = head
    /\ UNCHANGED <<repo, revision, committing, pulled, sync, ghosts>>

StoreRevision ==
    /\ looking # NoRevision /\ revision' = looking /\ looking' = NoRevision
    /\ UNCHANGED <<repo, committing, pulled, sync, ghosts>>

(* SPIFFWORKFLOW_BACKEND_GIT_CURRENT_REVISION_CACHE_TTL_SECONDS are over. *)
RevisionExpires ==
    /\ looking = NoRevision /\ revision # NoRevision /\ revision' = NoRevision
    /\ UNCHANGED <<repo, looking, committing, pulled, sync, ghosts>>

(* A bug: the lock is taken for the store only, not while git runs. *)
ClearAnyTime == revision' = NoRevision /\ UNCHANGED looking

clear_current_revision_cache ==
    /\ looking = NoRevision
    /\ revision' = NoRevision /\ UNCHANGED looking

(* commit returns *)
CommitReturns ==
    /\ committing = "pushed" /\ clear_current_revision_cache
    /\ committing' = "" /\ returned' = head
    /\ UNCHANGED <<repo, pulled, sync, saves, exposed>>

-----------------------------------------------------------------------------
(* Webhooks.  `after' is any commit the remote has or had. *)

(* pull --rebase: refused when the tree is dirty; what is only here is put *)
(* on top of what the remote has.                                          *)
handle_web_hook(after) ==
    /\ ~pulled /\ revision # after /\ ~Dirty
    /\ \/ IsAncestor(head, origin) /\ head' = origin /\ UNCHANGED commits
       \/ ~IsAncestor(head, origin) /\ IsAncestor(origin, head) /\ UNCHANGED <<head, commits>>
       \/ /\ ~IsAncestor(head, origin) /\ ~IsAncestor(origin, head)
          /\ Len(commits) < MaxCommits /\ head' = Len(commits) + 1
          /\ commits' = NewCommit(origin, commits[origin].tree \cup commits[head].tree)
    /\ worktree' = commits'[head'].tree /\ pulled' = TRUE
    /\ UNCHANGED <<origin, stashed, backedUp, cached, committing, sync, ghosts>>

WebHookReturns ==
    /\ pulled /\ clear_current_revision_cache /\ pulled' = FALSE
    /\ UNCHANGED <<repo, committing, sync, ghosts>>

(* The revision, from the cache, and the state of the tree. *)
force_sync_to_webhook_revision(after) ==
    /\ sync.at = "idle" /\ revision # NoRevision
    /\ ~(revision = after /\ ~Dirty)
    /\ sync' = [at |-> "read", target |-> after, current |-> revision, dirty |-> Dirty]
    /\ UNCHANGED <<repo, cached, committing, pulled, ghosts>>

(* fetch, then stash push --include-untracked, if the tree was dirty *)
Stash ==
    /\ sync.at = "read" /\ sync' = [sync EXCEPT !.at = "stashed"]
    /\ stashed' = IF sync.dirty THEN stashed \cup (worktree \ commits[head].tree) ELSE stashed
    /\ worktree' = IF sync.dirty THEN commits[head].tree ELSE worktree
    /\ UNCHANGED <<commits, head, origin, backedUp, cached, committing, pulled, ghosts>>

(* A bug: the arguments of merge-base are swapped. *)
PreserveSwapped ==
    /\ sync.at = "stashed" /\ sync' = [sync EXCEPT !.at = "preserved"]
    /\ backedUp' = IF sync.current # sync.target /\ ~IsAncestor(sync.target, sync.current)
                   THEN backedUp \cup commits[sync.current].tree ELSE backedUp
    /\ UNCHANGED <<worktree, commits, head, origin, stashed, cached, committing, pulled, ghosts>>

(* A backup branch for a revision the target does not contain *)
preserve_local_state_before_force_sync ==
    /\ sync.at = "stashed" /\ sync' = [sync EXCEPT !.at = "preserved"]
    /\ backedUp' = IF sync.current # sync.target /\ ~IsAncestor(sync.current, sync.target)
                   THEN backedUp \cup commits[sync.current].tree ELSE backedUp
    /\ UNCHANGED <<worktree, commits, head, origin, stashed, cached, committing, pulled, ghosts>>

(* reset --hard.  The backup is of the revision that was read: what else   *)
(* the branch has come to hold since is exposed.                           *)
ResetHard ==
    /\ sync.at = "preserved" /\ sync' = [sync EXCEPT !.at = "reset"]
    /\ head' = sync.target /\ worktree' = commits[sync.target].tree
    /\ exposed' = exposed \cup (commits[head].tree \ commits[sync.current].tree)
    /\ returned' = NoRevision
    /\ UNCHANGED <<commits, origin, stashed, backedUp, cached, committing, pulled, saves>>

(* clean -fd takes new files, and not changes to others; then the cache. *)
SyncReturns ==
    /\ sync.at = "reset" /\ sync' = NoSync
    /\ \E kept \in SUBSET (worktree \ commits[head].tree) :
          worktree' = kept \cup (worktree \cap commits[head].tree)
    /\ clear_current_revision_cache
    /\ UNCHANGED <<commits, head, origin, stashed, backedUp, committing, pulled, ghosts>>

(* Any of the git commands fails. *)
SyncFails ==
    /\ sync.at # "idle" /\ sync' = NoSync
    /\ UNCHANGED <<repo, cached, committing, pulled, ghosts>>

GitSyncNext ==
    \/ save_file \/ commit_on_save \/ Push \/ PushFails \/ CommitReturns
    \/ CommitElsewhere \/ PushElsewhere
    \/ get_current_revision \/ StoreRevision \/ RevisionExpires
    \/ \E c \in Revisions : IsAncestor(c, origin) /\ (handle_web_hook(c) \/ force_sync_to_webhook_revision(c))
    \/ WebHookReturns
    \/ Stash \/ preserve_local_state_before_force_sync \/ ResetHard \/ SyncReturns \/ SyncFails

GitSyncSpec == GitSyncInit /\ [][GitSyncNext]_gitVars

-----------------------------------------------------------------------------
(* Whatever order commits, pulls, webhooks and failures come in, a save    *)
(* can be found again: in the working tree, the branch, the remote, the    *)
(* stash or a backup branch.  Lost are only saves made while a force sync  *)
(* was under way, or committed without the sync's knowledge: the revision  *)
(* it took from the cache was not the branch's any more                    *)
(* (_preserve_local_state_before_force_sync).                              *)
NothingLost ==
    1 .. saves \subseteq worktree \cup stashed \cup backedUp \cup commits[head].tree
                         \cup commits[origin].tree \cup exposed

(* Once a commit has returned, and until a force sync moves the branch     *)
(* back, this process never takes an older revision from the cache,        *)
(* whichever threads were looking at the time: the lock is held from the   *)
(* lookup to the store                                                     *)
(* (get_current_revision, clear_current_revision_cache).                   *)
CommitsAreSeen ==
    NoRevision \notin {revision, returned} /\ revision # returned => ~IsAncestor(revision, returned)

(* Both, and the types. *)
GitSound == GitSyncTypeOK /\ NothingLost /\ CommitsAreSeen
=============================================================================
