-------------------------- MODULE EsimNotifications --------------------------
(***************************************************************************)
(* The notifications an eUICC keeps for the SM-DP+ servers and the         *)
(* operations of internal/esim/manager.go that send them: DownloadProfile, *)
(* DeleteProfile, ListNotifications with its automatic cleanup and         *)
(* RetryNotification.  Each runs under opMu (EsimManager) from end to end, *)
(* so an operation is one action; what the card and the server answer is a *)
(* nondeterministic outcome, a retried call is its last outcome.           *)
(***************************************************************************)
EXTENDS Naturals

CONSTANTS
    Profile,  \* profiles of the SM-DP+
    MaxOps    \* bound: operations

VARIABLES
    list,       \* notifications on the card
    seq,        \* last sequence number the card has given
    installed,  \* profiles on the card
    sent,       \* notifications the server has received
    removed,    \* notifications removed from the card
    withheld,   \* notifications the card listed and returned nothing for
    result,     \* what the last operation returned
    ops         \* operations so far

vars == <<list, seq, installed, sent, removed, withheld, result, ops>>

Event == {"install", "enable", "disable", "delete"}
Note(s, e, x) == [seq |-> s, ev |-> e, prof |-> x]

\* ok: no error; note: the notification the operation is about; warn: its
\* warning; based: the sequence numbers already there were known.
NoNote == Note(0, "install", 0)
Result(ok, n, warn, based, code) ==
    [ok |-> ok, note |-> n, warn |-> warn, based |-> based, code |-> code]
Failed(code) == Result(FALSE, NoNote, "none", TRUE, code)

Init ==
    /\ list = {} /\ seq = 0 /\ sent = {} /\ removed = {} /\ withheld = {}
    /\ installed \in SUBSET Profile
    /\ result = Failed("none") /\ ops = 0

-----------------------------------------------------------------------------

BugFirstSequence(ns) ==
    IF ns = {} THEN 0
    ELSE (CHOOSE n \in ns : \A o \in ns : n.seq <= o.seq).seq

\* maxNotificationSequence
MaxSequence(ns) ==
    IF ns = {} THEN 0
    ELSE (CHOOSE n \in ns : \A o \in ns : o.seq <= n.seq).seq

\* downloadNotificationBaseline: the list before the download, if it could
\* be read, and the number in the download's own result, if it has one.
Baseline(pre, own) ==
    LET before == MaxSequence(pre) IN
    IF own > 0 /\ own - 1 > before THEN own - 1 ELSE before

Install(ns) == {n \in ns : n.ev = "install"}

\* findMatchingNotificationAfterSeq, findMatchingDeleteNotification
InstallMatches(ns, base) == {n \in Install(ns) : n.seq > base}
DeleteMatches(ns, base, x) ==
    {n \in ns : n.ev = "delete" /\ n.seq > base /\ n.prof = x}

\* resolveDownloadNotificationResult and resolveDeleteNotificationResult:
\* find a matching notification, retrieve what is pending, send it.  A card
\* that lists a notification and returns nothing for it leaves nothing to
\* send and no warning; a send whose answer is lost is a warning.
Send(matches, warn) ==
    \/ warn = "not_observed" /\ UNCHANGED <<sent, withheld>>
    \/ \E n \in matches :
         \/ warn = "retrieve_failed" /\ UNCHANGED <<sent, withheld>>
         \/ /\ warn = "handle_failed" /\ UNCHANGED withheld
            /\ sent' \in {sent, sent \cup {n}}
         \/ /\ warn = "none" /\ UNCHANGED withheld
            /\ sent' = sent \cup {n}
         \/ /\ warn = "none" /\ UNCHANGED sent
            /\ withheld' = withheld \cup {n}

Warnings == {"none", "not_observed", "retrieve_failed", "handle_failed"}

\* ClassifyDownloadError and classifyBPPErrorCode.
Reason == {"iccid_exists", "memory", "interrupted", "mismatch", "ppr"}
Classify(err) ==
    CASE err.kind # "bpp" -> "download_failed"
      [] err.kind = "bpp" /\ err.loading /\ err.reason \in Reason -> err.reason
      [] OTHER -> "install_failed"

\* isRecoverableDownloadInstallFinalizeError
Recoverable(err) == err.kind = "apdu"

\* A package error is the card's verdict; a server error comes before or
\* after the installation; an APDU error may hide that it has succeeded.
Error == [kind : {"server", "apdu"}, loading : {FALSE}, reason : {"other"}]
    \cup [kind : {"bpp"}, loading : BOOLEAN, reason : Reason \cup {"other"}]

-----------------------------------------------------------------------------

\* Arguments, space check, IMEI, address or session fail before the card is
\* touched, in any of the operations.
Refused ==
    /\ ops < MaxOps /\ ops' = ops + 1
    /\ result' = Failed("refused")
    /\ UNCHANGED <<list, seq, installed, sent, removed, withheld>>

\* The card installs x and notes it.
CardInstalls(x) ==
    /\ x \notin installed
    /\ installed' = installed \cup {x}
    /\ seq' = seq + 1
    /\ list' = list \cup {Note(seq + 1, "install", x)}

\* preDownloadNotifications: read, or not.
Pre(preOK) == IF preOK THEN Install(list) ELSE {}

DownloadProfile(x) ==
    /\ ops < MaxOps /\ ops' = ops + 1
    /\ CardInstalls(x)
    /\ UNCHANGED removed
    /\ \E preOK \in BOOLEAN, own \in {0, seq + 1}, warn \in Warnings :
         /\ Send(InstallMatches(list', Baseline(Pre(preOK), own)), warn)
         /\ result' = Result(TRUE, Note(seq + 1, "install", x), warn, preOK \/ own > 0, "none")

\* recoverDownloadInstallFinalizeError: an error during the installation,
\* with a readable list before it, is a success if an install notification
\* that is newer can be sent without a warning.
RecoverDownload(x) ==
    /\ ops < MaxOps /\ ops' = ops + 1
    /\ \E err \in Error, warn \in Warnings :
         /\ Recoverable(err)
         /\ \/ CardInstalls(x)
            \/ UNCHANGED <<installed, seq, list>>
         /\ Send(InstallMatches(list', Baseline(Pre(TRUE), 0)), warn)
         /\ result' = IF warn = "none"
                      THEN Result(TRUE, Note(seq + 1, "install", x), "recovered", TRUE, "none")
                      ELSE Failed(Classify(err))
    /\ UNCHANGED removed

\* Without recovery: the error came before the installation, is the card's
\* own verdict, or there is no list, context or session to recover with.
DownloadFails(x) ==
    /\ ops < MaxOps /\ ops' = ops + 1
    /\ \E err \in Error :
         /\ \/ UNCHANGED <<installed, seq, list>>
            \/ err.kind = "apdu" /\ CardInstalls(x)
         /\ result' = Failed(Classify(err))
    /\ UNCHANGED <<sent, removed, withheld>>

\* DeleteProfile takes the highest number of any notification before.
DeleteProfile(x) ==
    /\ ops < MaxOps /\ ops' = ops + 1
    /\ x \in installed
    /\ installed' = installed \ {x}
    /\ seq' = seq + 1
    /\ list' = list \cup {Note(seq + 1, "delete", x)}
    /\ UNCHANGED removed
    /\ \E preOK \in BOOLEAN, warn \in Warnings :
         /\ Send(DeleteMatches(list', IF preOK THEN MaxSequence(list) ELSE 0, x), warn)
         /\ result' = Result(TRUE, Note(seq + 1, "delete", x), warn, preOK, "none")

\* The card refuses, or its answer is lost.
DeleteFails(x) ==
    /\ ops < MaxOps /\ ops' = ops + 1
    /\ \/ UNCHANGED <<installed, seq, list>>
       \/ /\ x \in installed
          /\ installed' = installed \ {x}
          /\ seq' = seq + 1
          /\ list' = list \cup {Note(seq + 1, "delete", x)}
    /\ result' = Failed("internal")
    /\ UNCHANGED <<sent, removed, withheld>>

\* A switch makes the card note that it disabled one profile, enabled another.
CardSwitches(x) ==
    /\ ops < MaxOps /\ ops' = ops + 1
    /\ x \in installed
    /\ \E e \in {"enable", "disable"} : list' = list \cup {Note(seq + 1, e, x)}
    /\ seq' = seq + 1
    /\ UNCHANGED <<installed, sent, removed, withheld, result>>

\* isAutoCleanableLoadedNotification
AutoCleanable(n) == n.seq > 0 /\ n.ev \in {"enable", "disable"}

BugAutoCleanUnsent(handed, cleaned) ==
    /\ handed \cup cleaned \subseteq {n \in list : AutoCleanable(n)}
    /\ sent' = sent \cup handed
    /\ list' = list \ cleaned
    /\ removed' = removed \cup cleaned

\* listNotificationItemsWithCleanup: of the state notifications some are
\* sent, some of these removed (RemoveNotificationFromList).
AutoClean(handed, cleaned) ==
    /\ handed \subseteq {n \in list : AutoCleanable(n)}
    /\ cleaned \subseteq handed
    /\ sent' = sent \cup handed
    /\ list' = list \ cleaned
    /\ removed' = removed \cup cleaned

ListNotifications ==
    /\ ops < MaxOps /\ ops' = ops + 1
    /\ \E handed, cleaned \in SUBSET list : AutoClean(handed, cleaned)
    /\ result' = Result(TRUE, NoNote, "none", FALSE, "none")
    /\ UNCHANGED <<seq, installed, withheld>>

\* RetryNotification: nothing on the card under this number is an error, an
\* empty answer too.
RetryNotification(s) ==
    /\ ops < MaxOps /\ ops' = ops + 1
    /\ LET found == {n \in list : n.seq = s} IN
       \/ /\ found # {}
          /\ sent' = sent \cup found
          /\ result' = Result(TRUE, CHOOSE n \in found : TRUE, "none", TRUE, "none")
       \/ /\ sent' \in {sent, sent \cup found}
          /\ result' = Failed(IF found = {} THEN "not_found" ELSE "internal")
    /\ UNCHANGED <<list, seq, installed, removed, withheld>>

Next ==
    \/ Refused \/ ListNotifications
    \/ \E x \in Profile :
         \/ DownloadProfile(x) \/ RecoverDownload(x) \/ DownloadFails(x)
         \/ DeleteProfile(x) \/ DeleteFails(x) \/ CardSwitches(x)
    \/ \E s \in 0..seq : RetryNotification(s)

Spec == Init /\ [][Next]_vars

-----------------------------------------------------------------------------

\* An operation that reports success without a warning has told the server:
\* its own notification has been sent, not an older one, and a download
\* taken for a success in spite of an error has put the profile on the
\* card.  It needs the sequence numbers from before to tell its own
\* notification, and a card that returns what it lists.
\* (sendDownloadInstallNotification, resolveDeleteNotificationResult,
\* recoverDownloadInstallFinalizeError, RetryNotification)
SuccessIsNotified ==
    result.ok /\ result.based /\ result.warn \in {"none", "recovered"} =>
        /\ result.note \in sent \cup withheld
        /\ result.warn = "recovered" => result.note.prof \in installed

\* The automatic cleanup removes from the card only what the server has
\* received, and never a notification about an installation or a deletion;
\* whatever has not been sent is still there to be retried.
\* (autoCleanLoadedNotifications, isAutoCleanableLoadedNotification)
RemovedWereSent ==
    /\ removed \subseteq sent
    /\ \A n \in removed : n.ev \notin {"install", "delete"}
    /\ \A s \in 1..seq : \E n \in list \cup removed : n.seq = s
=============================================================================
