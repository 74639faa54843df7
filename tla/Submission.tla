----------------------------- MODULE Submission ------------------------------
(* One account's SMTPService under its tools: a pool of the current generation, *)
(* sends that were dispatched on the pool of their time, and everything that    *)
(* can take it away from under them: a cancelled request, a new configuration,  *)
(* the end of the account. A reply marks the message it answers once it is sent.*)
EXTENDS Naturals, FiniteSets

CONSTANTS
  Sends,          \* calls of the sending tools
  SourceFolders,  \* each with a message of the same UID
  Allowed,        \* the folders of a restricted caller
  MaxRetires,     \* bound: generations of the pool
  MaxAbuses       \* bound: replies that ask to slow down

Unnamed == "none"
Away == "away"      \* where a message is that left its folder

VARIABLES
  generation,   \* transportGeneration
  pool,         \* whether there is a transporter, an init error, or neither
  sockets,      \* the connection a send waits for or uses
  sends,        \* the calls
  throttled,    \* the backoff holds sends back
  wiped,        \* the account is gone and its credentials with it
  kept,         \* where the message of each folder is now
  accepted,     \* history: what the server took
  flagged,      \* history: the messages that were marked, and by which reply
  abuses

sub_vars == <<generation, pool, sockets, sends, throttled, wiped, kept, accepted, flagged, abuses>>

NotBegun == [at |-> "idle", gen |-> 0, source |-> Unnamed, restricted |-> FALSE, cut |-> FALSE]

SubInit ==
  /\ generation = 1 /\ pool \in {"ready", "init_error"}
  /\ sockets = [s \in Sends |-> "none"]
  /\ sends = [s \in Sends |-> NotBegun]
  /\ throttled = FALSE /\ wiped = FALSE
  /\ kept = [f \in SourceFolders |-> f]
  /\ accepted = {} /\ flagged = {} /\ abuses = 0

Answer(s, how) == sends' = [sends EXCEPT ![s].at = how]

------------------------------------------------------------------------------
(* The tools                                                                    *)

(* reply_to_email and forward_email read the original first, from its mailbox or *)
(* from a cache that may still hold it: a restricted caller has to name its      *)
(* folder, and has to get the message from there. With no folder named, any     *)
(* mailbox with that UID may answer.                                            *)
FromAllowed(hint, found) == hint \in Allowed /\ found = hint

ReadOriginal(s, hint, restricted) ==
  /\ sends[s].at = "idle"
  /\ \E found \in (IF hint = Unnamed THEN SourceFolders ELSE {hint}) \cup {Unnamed} :
       sends' = [sends EXCEPT ![s] = IF found = Unnamed \/ (restricted /\ ~FromAllowed(hint, found))
                                     THEN [NotBegun EXCEPT !.at = "refused"]
                                     ELSE [NotBegun EXCEPT !.at = "ready", !.source = found, !.restricted = restricted]]
  /\ UNCHANGED <<generation, pool, sockets, throttled, wiped, kept, accepted, flagged, abuses>>

(* The arguments, the recipients and the attachments of a call can be declined, *)
(* and a mailbox that is fenced turns the send away.                            *)
Declined(s) == Answer(s, "refused")

(* sendEmail() up to the pool: the checks, the backoff, and the dispatch on the *)
(* transporter there is now.                                                    *)
sendEmail(s) ==
  /\ \/ /\ pool = "ready" /\ ~throttled
        /\ sends' = [sends EXCEPT ![s].at = "dispatched", ![s].gen = generation]
     \/ pool = "ready" /\ throttled /\ Answer(s, "failed")
     \/ Declined(s)
  /\ UNCHANGED <<generation, pool, sockets, throttled, wiped, kept, accepted, flagged, abuses>>

(* send_email and send_test_email write a new message; reply_to_email and       *)
(* forward_email send one about the original they have read.                    *)
send_email(s) == sends[s].at = "idle" /\ sendEmail(s)
reply_to_email(s) == sends[s].at = "ready" /\ sendEmail(s)

------------------------------------------------------------------------------
(* The pool's connections                                                       *)

(* The pool of any generation may ask late. Mutant: it gets its socket.         *)
AnySocket(s) == TRUE
OwnGeneration(s) == sends[s].gen = generation

openTrackedSocket(s) ==
  /\ sends[s].at = "dispatched" /\ sockets[s] = "none"
  /\ sockets' = [sockets EXCEPT ![s] = IF OwnGeneration(s) THEN "connecting" ELSE "lost"]
  /\ UNCHANGED <<generation, pool, sends, throttled, wiped, kept, accepted, flagged, abuses>>

Connects(s) ==
  /\ sockets[s] = "connecting"
  /\ sockets' = [sockets EXCEPT ![s] = IF OwnGeneration(s) THEN "open" ELSE "lost"]
  /\ UNCHANGED <<generation, pool, sends, throttled, wiped, kept, accepted, flagged, abuses>>

(* The server has the message; its reply is another matter.                     *)
Transmits(s) ==
  /\ sends[s].at = "dispatched" /\ sockets[s] = "open" /\ s \notin accepted
  /\ accepted' = accepted \cup {s}
  /\ UNCHANGED <<generation, pool, sockets, sends, throttled, wiped, kept, flagged, abuses>>

Confirms(s) ==
  /\ sends[s].at = "dispatched" /\ sockets[s] = "open" /\ s \in accepted
  /\ Answer(s, "confirmed") /\ sockets' = [sockets EXCEPT ![s] = "none"]
  /\ UNCHANGED <<generation, pool, throttled, wiped, kept, accepted, flagged, abuses>>

(* A timeout, a reset or an end of the connection; or a reply that declines.    *)
Breaks(s) ==
  /\ sockets[s] \in {"connecting", "open", "lost"}
  /\ sends[s].at = "dispatched"
  /\ sends' = [sends EXCEPT ![s].at = "rejected", ![s].cut = (sockets[s] = "lost")]
  /\ sockets' = [sockets EXCEPT ![s] = "none"]
  /\ UNCHANGED <<generation, pool, throttled, wiped, kept, accepted, flagged, abuses>>

------------------------------------------------------------------------------
(* hardRetireTransport() and who calls it                                       *)

(* The sockets of the old generation fail at once, waiting or open.             *)
hardRetireTransport ==
  /\ generation < MaxRetires
  /\ generation' = generation + 1
  /\ sockets' = [s \in Sends |-> IF sockets[s] \in {"connecting", "open"} THEN "lost" ELSE sockets[s]]

(* A cancelled or overdue request: a new pool takes the place of the old one,   *)
(* if there was one.                                                            *)
abortActiveMutationTransport ==
  /\ hardRetireTransport
  /\ \/ pool = "ready" /\ pool' \in {"ready", "init_error"}
     \/ pool # "ready" /\ UNCHANGED pool
  /\ UNCHANGED <<sends, throttled, wiped, kept, accepted, flagged, abuses>>

(* New settings of the account, unless it was retired.                          *)
reinitialize ==
  /\ ~wiped /\ hardRetireTransport
  /\ pool' \in {"ready", "init_error"}
  /\ UNCHANGED <<sends, throttled, wiped, kept, accepted, flagged, abuses>>

(* retireServices(): close(), and in the same turn wipeCredentials(), whose      *)
(* second retirement finds nothing left.                                        *)
Retires ==
  /\ ~wiped /\ hardRetireTransport
  /\ wiped' = TRUE /\ pool' = "none"
  /\ UNCHANGED <<sends, throttled, kept, accepted, flagged, abuses>>

------------------------------------------------------------------------------
(* The end of a send.                                                           *)
StillItsPool(s) == sends[s].gen = generation

Ends(s) ==
  /\ sends[s].at \in {"confirmed", "rejected"}
  /\ IF ~StillItsPool(s) THEN Answer(s, "ambiguous") /\ UNCHANGED <<throttled, abuses>>
     ELSE IF sends[s].at = "confirmed"
     THEN throttled' = FALSE /\ UNCHANGED abuses
          /\ Answer(s, IF sends[s].source = Unnamed THEN "sent" ELSE "flagging")
     ELSE /\ Answer(s, "failed")
          /\ \/ abuses < MaxAbuses /\ throttled' = TRUE /\ abuses' = abuses + 1
             \/ UNCHANGED <<throttled, abuses>>
  /\ UNCHANGED <<generation, pool, sockets, wiped, kept, accepted, flagged>>

(* setFlag() in the folder the original was read from; a failure is logged.     *)
FlagIn(s) == {f \in {sends[s].source} : kept[f] = f}

Flags(s) ==
  /\ sends[s].at = "flagging"
  /\ \/ \E f \in FlagIn(s) : flagged' = flagged \cup {<<s, f>>}
     \/ UNCHANGED flagged
  /\ Answer(s, "sent")
  /\ UNCHANGED <<generation, pool, sockets, throttled, wiped, kept, accepted, abuses>>

------------------------------------------------------------------------------
(* Around it                                                                    *)

MovedAway(f) ==
  /\ kept[f] = f /\ kept' = [kept EXCEPT ![f] = Away]
  /\ UNCHANGED <<generation, pool, sockets, sends, throttled, wiped, accepted, flagged, abuses>>

BackoffEnds ==
  /\ throttled /\ throttled' = FALSE
  /\ UNCHANGED <<generation, pool, sockets, sends, wiped, kept, accepted, flagged, abuses>>

SubNext ==
  \/ \E s \in Sends :
       \/ \E hint \in SourceFolders \cup {Unnamed}, restricted \in BOOLEAN : ReadOriginal(s, hint, restricted)
       \/ send_email(s) \/ reply_to_email(s) \/ openTrackedSocket(s) \/ Connects(s) \/ Transmits(s) \/ Confirms(s) \/ Breaks(s)
       \/ Ends(s) \/ Flags(s)
  \/ abortActiveMutationTransport \/ reinitialize \/ Retires
  \/ BackoffEnds \/ \E f \in SourceFolders : MovedAway(f)

SubSpec == SubInit /\ [][SubNext]_sub_vars

------------------------------------------------------------------------------
(* Properties.                                                                  *)

(* A retired generation is powerless: every socket that could carry a message   *)
(* is of the current pool, and there is none once the account is retired.       *)
RetiredIsPowerless ==
  \A s \in Sends : sockets[s] \in {"connecting", "open"} =>
    sends[s].gen = generation /\ ~wiped

(* What is said to be sent was taken by the server; and a send cut off by the   *)
(* retirement of its pool is never said to have failed, as it may well have     *)
(* been taken: a caller that tries again would send it twice.                   *)
AnswersHonest ==
  \A s \in Sends :
    /\ sends[s].at \in {"sent", "flagging"} => s \in accepted
    /\ sends[s].at = "failed" => ~sends[s].cut

(* A message is marked answered or forwarded by a reply to that very message    *)
(* that the server took; a restricted caller marks none outside its folders.    *)
MarksTheSource ==
  \A mark \in flagged :
    /\ mark[1] \in accepted /\ mark[2] = sends[mark[1]].source
    /\ sends[mark[1]].restricted => mark[2] \in Allowed

SubmissionHolds == RetiredIsPowerless /\ AnswersHonest /\ MarksTheSource

==============================================================================
