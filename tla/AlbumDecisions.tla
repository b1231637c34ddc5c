---------------------------- MODULE AlbumDecisions ----------------------------
(***************************************************************************)
(* What album deduplication promises, with no mutex, no channels and no    *)
(* compaction.  The messages of an album share one decision: it is taken   *)
(* by one message at a time, it stands until one TTL after that message    *)
(* arrived, and while it stands every message of the album that arrived    *)
(* before its end takes it over.  A message whose decision is lost to a    *)
(* panic leaves its turn to another; once the bot is stopping, a message   *)
(* may stop waiting for its album and decide alone.                        *)
(***************************************************************************)
EXTENDS Naturals

CONSTANTS Message, Album, AlbumOf, TTL

VARIABLES
  clock,
  stopping,   \* the bot is shutting down
  arrived,    \* arrived[m]: when m was taken up, 0 before
  deciding,   \* deciding[a]: the messages that decide for the album now
  standing,   \* standing[a]: the decision that stands, at most one
  fate        \* fate[m]: what became of m

vars == <<clock, stopping, arrived, deciding, standing, fate>>

Decision == {"allow", "delete"}

Init ==
  /\ clock = 1
  /\ stopping = FALSE
  /\ arrived = [m \in Message |-> 0]
  /\ deciding = [a \in Album |-> {}]
  /\ standing = [a \in Album |-> {}]
  /\ fate = [m \in Message |-> "open"]

\* m is waiting to be decided, by itself or by its album.
Waiting(m) == arrived[m] # 0 /\ fate[m] = "open" /\ m \notin deciding[AlbumOf[m]]

Settle(m, f) == fate' = [fate EXCEPT ![m] = f]

Arrive(m) ==
  /\ arrived[m] = 0
  /\ arrived' = [arrived EXCEPT ![m] = clock]
  /\ UNCHANGED <<clock, stopping, deciding, standing, fate>>

\* Nobody decides for the album, and its last decision was over when m arrived.
Begin(m) ==
  /\ Waiting(m)
  /\ deciding[AlbumOf[m]] = {}
  /\ \A s \in standing[AlbumOf[m]] : s.until <= arrived[m]
  /\ deciding' = [deciding EXCEPT ![AlbumOf[m]] = {m}]
  /\ standing' = [standing EXCEPT ![AlbumOf[m]] = {}]
  /\ UNCHANGED <<clock, stopping, arrived, fate>>

Conclude(m, d) ==
  /\ m \in deciding[AlbumOf[m]]
  /\ deciding' = [deciding EXCEPT ![AlbumOf[m]] = {}]
  /\ standing' = [standing EXCEPT ![AlbumOf[m]] =
                    {[decision |-> d, until |-> arrived[m] + TTL]}]
  /\ Settle(m, d)
  /\ UNCHANGED <<clock, stopping, arrived>>

TakeOver(m) ==
  /\ Waiting(m)
  /\ \E s \in standing[AlbumOf[m]] : arrived[m] < s.until /\ Settle(m, s.decision)
  /\ UNCHANGED <<clock, stopping, arrived, deciding, standing>>

DecideAlone(m, d) ==
  /\ Waiting(m) /\ stopping
  /\ Settle(m, d)
  /\ UNCHANGED <<clock, stopping, arrived, deciding, standing>>

\* A panic, of the message that decides for its album or of one that is alone.
GiveUp(m) ==
  /\ m \in deciding[AlbumOf[m]] \/ (Waiting(m) /\ stopping)
  /\ deciding' = [deciding EXCEPT ![AlbumOf[m]] = @ \ {m}]
  /\ Settle(m, "lost")
  /\ UNCHANGED <<clock, stopping, arrived, standing>>

\* Decisions are forgotten when their time is over, not before.
Forget ==
  /\ \E old \in SUBSET Album :
       /\ \A a \in old : \A s \in standing[a] : s.until <= clock
       /\ standing' = [a \in Album |-> IF a \in old THEN {} ELSE standing[a]]
  /\ UNCHANGED <<clock, stopping, arrived, deciding, fate>>

Tick ==
  /\ clock' = clock + 1
  /\ UNCHANGED <<stopping, arrived, deciding, standing, fate>>

Stop ==
  /\ stopping' = TRUE
  /\ UNCHANGED <<clock, arrived, deciding, standing, fate>>

Next ==
  \/ \E m \in Message : \/ Arrive(m) \/ Begin(m) \/ TakeOver(m) \/ GiveUp(m)
                        \/ \E d \in Decision : Conclude(m, d) \/ DecideAlone(m, d)
  \/ Forget \/ Tick \/ Stop

Spec == Init /\ [][Next]_vars
==============================================================================
