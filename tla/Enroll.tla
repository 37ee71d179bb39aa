-------------------------------- MODULE Enroll --------------------------------
(***************************************************************************)
(* Enrollment by device grant: Round and Enrollment of                     *)
(* zyris-core/src/enroll/device.rs and PollState of enroll/protocol.rs.    *)
(*                                                                         *)
(* A program asks for a code, shows it, and waits (wait() polls) until a   *)
(* person has answered or the code has lapsed; then it may renew.  The     *)
(* server is external.  It may answer that nobody has decided yet, ask to  *)
(* slow down, be out of order (429 and 5xx), refuse, or not answer at all. *)
(* Time is counted from the start of the round; an answer takes at most    *)
(* MaxAnswer.                                                              *)
(***************************************************************************)
EXTENDS Integers

CONSTANTS Lifetimes,     \* expires_in
          Hints,         \* intervals a server may name
          MinInterval, MaxInterval, SlowDownStep,   \* MIN_, MAX_POLL_INTERVAL, SLOW_DOWN_STEP
          MaxAnswer,     \* bound on the time a request takes
          MaxRounds      \* bound on the codes asked for

Never == -1
NoHint == -1

VARIABLES
    enAt,         \* "none", "waiting" (in poll), "asking", "erred", or how wait ended
    enRound,      \* codes asked for
    enNow,        \* time since Round::begin
    enDeadline,   \* Round.deadline
    enNext,       \* Round.next_poll
    enInterval,   \* PollState.interval
    enAsked,      \* when the question under way was asked
    enPerson,     \* what the person decided: "undecided", "approved", "denied"
    enApproved,   \* history: when the code was approved, or Never
    enWidest,     \* history: the widest interval this round
    enAnswered,   \* history: when the last answer came, or Never
    enJudged      \* history: the last question was answered on its merits

enVars == <<enAt, enRound, enNow, enDeadline, enNext, enInterval, enAsked, enPerson,
            enApproved, enWidest, enAnswered, enJudged>>

Widest(a, b) == IF a > b THEN a ELSE b

\* clamp_interval
Clamp(i) == IF i < MinInterval THEN MinInterval ELSE IF i > MaxInterval THEN MaxInterval ELSE i

\* Slip: the server's number is not clamped.
AdoptUnclamped(i, hint) == IF hint = NoHint THEN i ELSE Widest(i, hint)

\* PollState::adopt, only ever widening.
Adopt(i, hint) == IF hint = NoHint THEN i ELSE Widest(i, Clamp(hint))

SlowDown(i) == Clamp(i + SlowDownStep)

\* Round::begin
Begin(lifetime, hint) ==
    /\ enRound' = enRound + 1
    /\ enNow' = 0 /\ enDeadline' = lifetime /\ enNext' = 0
    /\ enInterval' = Clamp(hint) /\ enWidest' = Clamp(hint)
    /\ enAsked' = Never /\ enAnswered' = Never
    /\ enPerson' = "undecided" /\ enApproved' = Never
    /\ enJudged' = TRUE

EnInit ==
    /\ enAt = "none" /\ enRound = 0
    /\ enNow = 0 /\ enDeadline = 0 /\ enNext = 0 /\ enInterval = MinInterval
    /\ enAsked = Never /\ enAnswered = Never /\ enWidest = MinInterval
    /\ enPerson = "undecided" /\ enApproved = Never /\ enJudged = TRUE

\* enroll and renew: authorize answers with a code, or with an error and no round.
Authorize ==
    /\ enAt \in {"none", "lapsed", "erred"} /\ enRound < MaxRounds
    /\ \E lifetime \in Lifetimes, hint \in Hints : Begin(lifetime, hint)
    /\ enAt' = "waiting"

round == <<enRound, enDeadline>>
person == <<enPerson, enApproved>>

\* poll: after the sleep, a code past its deadline is not asked about any more.
PollLapses ==
    /\ enAt = "waiting" /\ enNow >= enNext /\ enNow >= enDeadline
    /\ enAt' = "lapsed"
    /\ UNCHANGED <<round, person, enNow, enNext, enInterval, enAsked, enWidest, enAnswered, enJudged>>

PollAsks ==
    /\ enAt = "waiting" /\ enNow >= enNext /\ enNow < enDeadline
    /\ enAt' = "asking" /\ enAsked' = enNow
    /\ UNCHANGED <<round, person, enNow, enNext, enInterval, enWidest, enAnswered, enJudged>>

\* on_error says to keep waiting.
KeepWaiting(interval, judged) ==
    /\ enAt = "asking"
    /\ enInterval' = interval /\ enWidest' = Widest(enWidest, interval)
    /\ enNext' = enNow + interval
    /\ enAnswered' = enNow /\ enJudged' = judged
    /\ enAt' = "waiting"
    /\ UNCHANGED <<round, person, enNow, enAsked>>

AnswerPending ==
    /\ enPerson = "undecided" /\ enNow < enDeadline
    /\ \E hint \in Hints \cup {NoHint} : KeepWaiting(Adopt(enInterval, hint), TRUE)

AnswerSlowDown ==
    \E hint \in Hints \cup {NoHint} :
        KeepWaiting(IF hint = NoHint THEN SlowDown(enInterval) ELSE Adopt(enInterval, hint), FALSE)

\* is_transient: 429 or 5xx, whatever the body.
AnswerTransient == KeepWaiting(SlowDown(enInterval), FALSE)

\* An answer that ends wait: a credential, or a refusal.
AnswerFinal ==
    /\ enAt = "asking"
    /\ \/ enPerson = "approved" /\ enNow < enDeadline /\ enAt' = "granted"
       \/ enPerson = "denied" /\ enNow < enDeadline /\ enAt' = "denied"
       \/ enNow >= enDeadline /\ enAt' = "lapsed"
    /\ enAnswered' = enNow /\ enJudged' = TRUE
    /\ enNext' = enNow + enInterval
    /\ UNCHANGED <<round, person, enNow, enInterval, enAsked, enWidest>>

\* post fails, or a body cannot be read, or the refusal is not a known one: wait
\* returns an error.  Only an answer that was read moves next_poll.
AnswerLost ==
    /\ enAt = "asking"
    /\ enAt' = "erred" /\ enJudged' = FALSE
    /\ \/ enNext' = enNow + enInterval /\ enAnswered' = enNow
       \/ UNCHANGED <<enNext, enAnswered>>
    /\ UNCHANGED <<round, person, enNow, enInterval, enAsked, enWidest>>

\* The program calls wait again after an error.
WaitAgain ==
    /\ enAt = "erred"
    /\ enAt' = "waiting"
    /\ UNCHANGED <<round, person, enNow, enNext, enInterval, enAsked, enWidest, enAnswered, enJudged>>

-------------------------------------------------------------------------------
(* External *)

Decide ==
    /\ enAt \in {"waiting", "asking", "erred"} /\ enPerson = "undecided" /\ enNow < enDeadline
    /\ \/ enPerson' = "approved" /\ enApproved' = enNow
       \/ enPerson' = "denied" /\ UNCHANGED enApproved
    /\ UNCHANGED <<round, enAt, enNow, enNext, enInterval, enAsked, enWidest, enAnswered, enJudged>>

\* A sleep ends on time and a request within MaxAnswer.
TimePasses ==
    /\ enAt \in {"waiting", "asking", "erred"}
    /\ enAt = "waiting" => enNow < enNext
    /\ enAt = "asking" => enNow < enAsked + MaxAnswer
    /\ enAt = "erred" => enNow < enDeadline
    /\ enNow' = enNow + 1
    /\ UNCHANGED <<round, person, enAt, enNext, enInterval, enAsked, enWidest, enAnswered, enJudged>>

EnNext ==
    \/ Authorize \/ PollLapses \/ PollAsks
    \/ AnswerPending \/ AnswerSlowDown \/ AnswerTransient \/ AnswerFinal \/ AnswerLost
    \/ WaitAgain \/ Decide \/ TimePasses

EnTypeOK ==
    /\ enAt \in {"none", "waiting", "asking", "erred", "granted", "denied", "lapsed"}
    /\ enRound \in 0 .. MaxRounds
    /\ enInterval \in MinInterval .. MaxInterval

-------------------------------------------------------------------------------
\* A question follows the last answer no sooner than the widest interval the
\* server has asked for since the code was issued (poll sleeps until next_poll,
\* adopt never narrows); one that was not answered sets no next_poll, and the one
\* after it may follow at once.  And wait reports a lapsed code that was in fact
\* approved only if the approval came after the last question, asked at most
\* MaxInterval and one answer earlier, or if that question was not judged (poll,
\* on_error, clamp_interval).
PollingIsPrompt ==
    /\ EnTypeOK
    /\ enAt = "asking" /\ enAnswered # Never => enAsked >= enAnswered + enWidest
    /\ enAt = "lapsed" /\ enApproved # Never /\ enJudged =>
        \/ enAnswered = enNow                       \* the server itself said so
        \/ /\ enApproved >= enAnswered
           /\ enAnswered = Never \/ enNow - enAnswered <= MaxInterval
===============================================================================
