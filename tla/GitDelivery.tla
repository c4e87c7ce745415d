---------------------------- MODULE GitDelivery ----------------------------
(***************************************************************************)
(* git_push_dry_run_result and git_push_ref_result: deliver one local      *)
(* branch to one existing branch of a remote, only while its head is the   *)
(* commit the caller expects.  Every look and every push is a process of   *)
(* its own, so the remote, the local branch and the configured URL may     *)
(* move between any two of them.                                           *)
(*                                                                         *)
(*   asked      the call has been made        freshhead  reads it again    *)
(*   head       reads the remote head         push       about to push     *)
(*   source     resolves the local branch     verify     reads the head    *)
(*   dryrun     tries the push                replied    has answered      *)
(*   freshurl   resolves the URL again                                     *)
(***************************************************************************)
CONSTANTS
    Commits,
    Descends,       \* the pairs <<c, d>> with d an ancestor of c, or c itself
    Urls,
    Root, Origin,   \* the commit and the URL everything starts at
    NoCommit        \* no such branch

ASSUME NoCommitAssumption == NoCommit \notin Commits
ASSUME OriginAssumption == Root \in Commits /\ Origin \in Urls
ASSUME DescendsAssumption == Descends \subseteq Commits \X Commits

VARIABLES
    remoteHead,     \* per URL: the head of the destination branch
    localHead,      \* the head of the source branch
    configured,     \* the URL the remote's name stands for
    pushPc,
    dryRun,         \* which of the two calls
    expected,       \* expected_remote_head
    url, sourceHead, afterHead,     \* what the call has found
    reply,          \* ok and pushed, as answered
    landed,         \* history: URL, old and new head of the push that landed
    moved           \* history: what has moved since the last look at it

gitWorld == <<remoteHead, localHead, configured>>
gitFound == <<url, sourceHead, afterHead>>
gitVars == <<gitWorld, pushPc, dryRun, expected, gitFound, reply, landed,
             moved>>

Heads == Commits \union {NoCommit}
PushPcs == {"idle", "asked", "head", "source", "dryrun", "freshurl",
            "freshhead", "push", "verify", "replied"}
NothingLanded == [url |-> "nowhere", from |-> NoCommit, to |-> NoCommit]
NoReply == [ok |-> FALSE, pushed |-> FALSE]

\* A push that is not forced moves a branch forward only, or creates it.
Accepts(u, commit) ==
    remoteHead[u] = NoCommit \/ <<commit, remoteHead[u]>> \in Descends

GitInit ==
    /\ remoteHead = [u \in Urls |-> Root] /\ localHead = Root
    /\ configured = Origin
    /\ pushPc = "idle" /\ dryRun = FALSE /\ expected = NoCommit
    /\ url = Origin /\ sourceHead = NoCommit /\ afterHead = NoCommit
    /\ reply = NoReply /\ landed = NothingLanded /\ moved = {}

(***************************************************************************)
(* Others: the remote's other users, who may force, the owner of the       *)
(* working copy, and whoever edits its configuration.                      *)
(***************************************************************************)
RemoteMoves(u, head) ==
    /\ head # remoteHead[u]
    /\ remoteHead' = [remoteHead EXCEPT ![u] = head]
    /\ moved' = moved \union {"remote"}
    /\ UNCHANGED <<localHead, configured, pushPc, dryRun, expected, gitFound,
                   reply, landed>>

LocalMoves(commit) ==
    /\ commit # localHead
    /\ localHead' = commit
    /\ moved' = moved \union {"local"}
    /\ UNCHANGED <<remoteHead, configured, pushPc, dryRun, expected, gitFound,
                   reply, landed>>

Reconfigured(u) ==
    /\ u # configured
    /\ configured' = u
    /\ moved' = moved \union {"url"}
    /\ UNCHANGED <<remoteHead, localHead, pushPc, dryRun, expected, gitFound,
                   reply, landed>>

(***************************************************************************)
(* The call.                                                               *)
(***************************************************************************)
CallPush(isDryRun, head) ==
    /\ pushPc = "idle"
    /\ dryRun' = isDryRun /\ expected' = head
    /\ pushPc' = "asked"
    /\ UNCHANGED <<gitWorld, gitFound, reply, landed, moved>>

\* The answer of a call; "has" says whether it claims to have pushed.
Answer(isOk, has) ==
    /\ reply' = [ok |-> isOk, pushed |-> has]
    /\ pushPc' = "replied"

\* Any git command may fail or time out: the call answers with the failure.
GitCommandFails ==
    /\ pushPc \in {"asked", "head", "source", "dryrun", "freshurl", "freshhead"}
    /\ Answer(FALSE, FALSE)
    /\ UNCHANGED <<gitWorld, dryRun, expected, gitFound, landed, moved>>

ResolveRemote ==
    /\ pushPc = "asked"
    /\ url' = configured /\ moved' = moved \ {"url"}
    /\ pushPc' = "head"
    /\ UNCHANGED <<gitWorld, dryRun, expected, sourceHead, afterHead, reply,
                   landed>>

ReadHead ==
    /\ pushPc = "head"
    /\ IF remoteHead[url] = expected
       THEN pushPc' = "source" /\ UNCHANGED reply
       ELSE Answer(FALSE, FALSE)
    /\ UNCHANGED <<gitWorld, dryRun, expected, gitFound, landed, moved>>

ResolveSource ==
    /\ pushPc = "source"
    /\ sourceHead' = localHead /\ moved' = moved \ {"local"}
    /\ pushPc' = "dryrun"
    /\ UNCHANGED <<gitWorld, dryRun, expected, url, afterHead, reply, landed>>

TryPush ==
    /\ pushPc = "dryrun"
    /\ IF ~Accepts(url, localHead) THEN Answer(FALSE, FALSE)
       ELSE IF dryRun THEN Answer(TRUE, FALSE)
       ELSE pushPc' = "freshurl" /\ UNCHANGED reply
    /\ UNCHANGED <<gitWorld, dryRun, expected, gitFound, landed, moved>>

ResolveRemoteAgain ==
    /\ pushPc = "freshurl"
    /\ IF configured = url
       THEN pushPc' = "freshhead" /\ moved' = moved \ {"url"} /\ UNCHANGED reply
       ELSE Answer(FALSE, FALSE) /\ UNCHANGED moved
    /\ UNCHANGED <<gitWorld, dryRun, expected, gitFound, landed>>

\* A common error: the first look is thought to be enough.
BugReadHeadAgain ==
    /\ pushPc = "freshhead"
    /\ pushPc' = "push" /\ moved' = moved \ {"remote"} /\ UNCHANGED reply
    /\ UNCHANGED <<gitWorld, dryRun, expected, gitFound, landed>>

ReadHeadAgain ==
    /\ pushPc = "freshhead"
    /\ IF remoteHead[url] = expected
       THEN pushPc' = "push" /\ moved' = moved \ {"remote"} /\ UNCHANGED reply
       ELSE Answer(FALSE, FALSE) /\ UNCHANGED moved
    /\ UNCHANGED <<gitWorld, dryRun, expected, gitFound, landed>>

\* The push names the branch, not the commit resolved before.  The remote
\* compares and swaps: a push lands whole or not at all.
Lands ==
    /\ Accepts(url, localHead)
    /\ remoteHead' = [remoteHead EXCEPT ![url] = localHead]
    /\ landed' = [url |-> url, from |-> remoteHead[url], to |-> localHead]
    /\ moved' = moved \ {"remote"}

GitPush ==
    /\ pushPc = "push"
    /\ \/ Lands /\ pushPc' = "verify" /\ UNCHANGED reply
       \/ UNCHANGED <<remoteHead, landed, moved>> /\ Answer(FALSE, FALSE)
    /\ UNCHANGED <<localHead, configured, dryRun, expected, gitFound>>

\* The push lands, and the command fails or times out all the same.
PushAnswerLost ==
    /\ pushPc = "push"
    /\ Lands /\ Answer(FALSE, FALSE)
    /\ UNCHANGED <<localHead, configured, dryRun, expected, gitFound>>

\* A common error: what cannot be verified is answered as not pushed.
BugVerifyHead ==
    /\ pushPc = "verify"
    /\ \/ /\ afterHead' = remoteHead[url]
          /\ Answer(afterHead' = sourceHead, afterHead' = sourceHead)
       \/ afterHead' = NoCommit /\ Answer(FALSE, FALSE)
    /\ UNCHANGED <<gitWorld, dryRun, expected, url, sourceHead, landed, moved>>

VerifyHead ==
    /\ pushPc = "verify"
    /\ \/ /\ afterHead' = remoteHead[url]
          /\ Answer(afterHead' = sourceHead, TRUE)
       \/ afterHead' = NoCommit /\ Answer(FALSE, TRUE)
    /\ UNCHANGED <<gitWorld, dryRun, expected, url, sourceHead, landed, moved>>

GitNext ==
    \/ \E u \in Urls, head \in Heads : RemoteMoves(u, head)
    \/ \E commit \in Commits : LocalMoves(commit)
    \/ \E u \in Urls : Reconfigured(u)
    \/ \E isDryRun \in BOOLEAN, head \in Commits : CallPush(isDryRun, head)
    \/ GitCommandFails
    \/ ResolveRemote \/ ReadHead \/ ResolveSource \/ TryPush
    \/ ResolveRemoteAgain \/ ReadHeadAgain
    \/ GitPush \/ PushAnswerLost \/ VerifyHead

GitSpec == GitInit /\ [][GitNext]_gitVars

-----------------------------------------------------------------------------
GitTypeOK ==
    /\ remoteHead \in [Urls -> Heads] /\ localHead \in Commits
    /\ configured \in Urls
    /\ pushPc \in PushPcs /\ dryRun \in BOOLEAN /\ expected \in Heads
    /\ url \in Urls /\ sourceHead \in Heads /\ afterHead \in Heads
    /\ reply \in [ok : BOOLEAN, pushed : BOOLEAN]
    /\ landed \in [url : Urls \union {"nowhere"}, from : Heads, to : Heads]
    /\ moved \in SUBSET {"remote", "local", "url"}

(***************************************************************************)
(* A delivery replaces the head the caller expected and nothing else.      *)
(* Only a move of the remote after the second look escapes it, and then    *)
(* the push moves the branch forward from what it replaces: work that      *)
(* others delivered in between is never lost.                              *)
(***************************************************************************)
DriftNeverOverwritten ==
    [][landed' # landed =>
          /\ ~dryRun
          /\ remoteHead[url] = expected \/ "remote" \in moved
          /\ remoteHead[url] # NoCommit =>
                <<remoteHead'[url], remoteHead[url]>> \in Descends]_gitVars

(***************************************************************************)
(* The answer of a call can be trusted.  "pushed" is false only if nothing *)
(* landed, unless the push command itself failed after the fact; "ok"      *)
(* means that the source commit resolved at the start was seen on the      *)
(* remote after the push, and that it is the one that landed unless the    *)
(* branch at either end has moved meanwhile.                               *)
(***************************************************************************)
ReplyTellsTheTruth ==
    [][pushPc' = "replied" /\ pushPc # "replied" =>
          /\ (reply'.pushed <=> landed' # NothingLanded) \/ pushPc = "push"
          /\ reply'.ok /\ ~dryRun =>
                /\ remoteHead[url] = sourceHead
                /\ landed'.to = sourceHead \/ moved # {}]_gitVars
=============================================================================
