------------------------------- MODULE SignIn -------------------------------
(***************************************************************************)
(* Signing in to one administrator's account: routes/auth.ts and           *)
(* routes/admin-auth.ts over modules/auth/challenges.ts,                   *)
(* security/lockout.ts, trusted-device.ts, totp.ts and recovery-codes.ts.  *)
(*                                                                         *)
(* A handler waits for the database between reading and writing, and every *)
(* awaited statement is a step of its own, so handlers interleave there.   *)
(* Time is counted in TOTP steps.  What a session then permits is Sessions;*)
(* here a grant only records that a handler issued or elevated one.        *)
(***************************************************************************)
EXTENDS Integers, Sequences, FiniteSets, SequencesExt

CONSTANTS
  Slots,         \* handlers that may be in flight at once
  MaxChallenges, \* bound on the rows of AuthChallenge
  MaxDeviceRows, \* bound on the rows of TrustedDevice
  Codes,         \* recovery codes of one enrolment
  Thresholds,    \* LOCKOUT.thresholds, a set of [failures, lock]
  Decay,         \* LOCKOUT.decayMs
  MaxAttempts,   \* maxAttempts of a challenge
  ChallengeLife, \* CHALLENGE_TTL
  DeviceLife,    \* TRUSTED_DEVICE.ttlMs
  MaxDevices,    \* TRUSTED_DEVICE.maxPerAccount
  Window,        \* steps a code may be early or late
  LastTick,      \* bound on time
  MaxHandlers    \* bound on handlers

ASSUME SignInAssumption ==
  /\ {Decay, MaxAttempts, ChallengeLife, DeviceLife, MaxDevices} \subseteq Nat \ {0}
  /\ {Window, LastTick, MaxHandlers, MaxChallenges, MaxDeviceRows} \subseteq Nat
  /\ IsFiniteSet(Slots) /\ {"none", "totp", "wrong", "right"} \cap Codes = {}
  /\ Thresholds \subseteq [failures : Nat, lock : Nat]

VARIABLES
  tick,
  account,    \* the columns of the account row this code reads
  challenge,  \* the challenge rows, in the order they were issued; `admitted`
              \* counts the sign-ins one has let through (records what happened)
  device,     \* when each device row expires
  recent,     \* unrevoked devices, the most recently used first
  handler,    \* handlers in flight
  handlers    \* number of handlers begun

signInVars == <<tick, account, challenge, device, recent, handler, handlers>>

Idle == [pc |-> "idle", c |-> 0, d |-> 0, code |-> "none",
         step |-> -1, row |-> [fails |-> 0, last |-> -1, open |-> TRUE, must |-> TRUE,
                    step |-> -1, enrolled |-> FALSE, unused |-> {}, until |-> 0],
         barred |-> FALSE]

(***************************************************************************)
(* Lock-out                                                                *)
(***************************************************************************)

\* Durations grow with the threshold; the last one reached counts.
ComputeLockDuration(n) ==
  LET reached == {t \in Thresholds : n >= t.failures}
  IN  IF reached = {} THEN 0
      ELSE (CHOOSE t \in reached : \A u \in reached : u.failures <= t.failures).lock

Locked == account.until > tick

\* Counted failures, as a read of the row shows them.
Counted(row) == IF row.last >= 0 /\ tick - row.last > Decay THEN 0 ELSE row.fails

Lifted(h) == [s \in Slots |-> [h[s] EXCEPT !.barred = FALSE]]

To(s, pc) == handler' = [handler EXCEPT ![s].pc = pc]
Finish(s) == handler' = [handler EXCEPT ![s] = Idle]

\* A handler begins: barred records that the account was locked then, until
\* the lock is lifted or rewritten.
Begin(s, rec) ==
  /\ handler[s].pc = "idle" /\ handlers < MaxHandlers
  /\ handlers' = handlers + 1
  /\ handler' = [handler EXCEPT ![s] = [rec EXCEPT !.barred = Locked]]

\* recordAuthFailure reads the counter, and writes it back in a later step.
FailureRead(s) ==
  /\ handler[s].pc = "failure"
  /\ handler' = [handler EXCEPT ![s].pc = "failureWrite", ![s].row = account]
  /\ UNCHANGED <<tick, account, challenge, device, recent, handlers>>

FailureWrite(s) ==
  /\ handler[s].pc = "failureWrite"
  /\ LET n == Counted(handler[s].row) + 1
         lock == ComputeLockDuration(n)
     IN  account' = [account EXCEPT !.fails = n, !.last = tick,
                                    !.until = IF lock > 0 THEN tick + lock ELSE 0]
  /\ handler' = Lifted([handler EXCEPT ![s] = Idle])
  /\ UNCHANGED <<tick, challenge, device, recent, handlers>>

(***************************************************************************)
(* Challenges                                                              *)
(***************************************************************************)

NewChallenge(kind, known) ==
  [kind |-> kind, known |-> known, consumed |-> FALSE, attempts |-> 0,
   expires |-> tick + ChallengeLife, admitted |-> 0]

\* issueChallenge, the last statement of its handler.
Issue(s, kind, known) ==
  /\ Len(challenge) < MaxChallenges
  /\ challenge' = Append(challenge, NewChallenge(kind, known))
  /\ Finish(s)
  /\ UNCHANGED <<tick, account, device, recent, handlers>>

\* peekChallenge.
Peeks(c, kind) ==
  /\ challenge[c].kind = kind
  /\ ~ challenge[c].consumed
  /\ challenge[c].expires > tick
  /\ challenge[c].attempts < MaxAttempts

\* recordChallengeAttempt, which onFailedLogin follows with recordAuthFailure.
Attempt(s) ==
  /\ handler[s].pc \in {"attempt", "attemptOnly"}
  /\ challenge' = [challenge EXCEPT ![handler[s].c].attempts = @ + 1]
  /\ IF handler[s].pc = "attempt" THEN To(s, "failure") ELSE Finish(s)
  /\ UNCHANGED <<tick, account, device, recent, handlers>>

\* consumeChallenge of an unconsumed row.
Consumes(c) ==
  /\ ~ challenge[c].consumed
  /\ challenge' = [challenge EXCEPT ![c].consumed = TRUE]

Consume(s) ==
  /\ handler[s].pc \in {"consume", "consumeEnrol"}
  /\ \/ /\ Consumes(handler[s].c)
        /\ IF handler[s].pc = "consume" THEN To(s, "commit") ELSE To(s, "revokeEnrol")
     \/ /\ challenge[handler[s].c].consumed
        /\ Finish(s)
        /\ UNCHANGED challenge
  /\ UNCHANGED <<tick, account, device, recent, handlers>>

(***************************************************************************)
(* Remembered devices                                                      *)
(***************************************************************************)

Live(d) == \E i \in DOMAIN recent : recent[i] = d

\* What is left of the devices when some are gone, in the same order.
Without(devices, gone) ==
  LET Kept[n \in 0..Len(devices)] ==
        IF n = 0 THEN <<>>
        ELSE IF devices[n] \in gone THEN Kept[n - 1] ELSE Append(Kept[n - 1], devices[n])
  IN  Kept[Len(devices)]

Drop(d) == Without(recent, {d})

\* revokeAllDevices.
RevokeAllDevices == recent' = <<>>

\* trustDevice: the row is created, then the list is read and cut.
TrustDevice(s) ==
  /\ handler[s].pc = "trust"
  /\ Len(device) < MaxDeviceRows
  /\ device' = Append(device, tick + DeviceLife)
  /\ recent' = <<Len(device) + 1>> \o recent
  /\ To(s, "surplus")
  /\ UNCHANGED <<tick, account, challenge, handlers>>

\* Mutated: one more is kept than the limit.
CutSurplusMut(s) ==
  /\ handler[s].pc = "surplus"
  /\ recent' = IF Len(recent) > MaxDevices + 1 THEN SubSeq(recent, 1, MaxDevices + 1) ELSE recent
  /\ Finish(s)
  /\ UNCHANGED <<tick, account, challenge, device, handlers>>

CutSurplus(s) ==
  /\ handler[s].pc = "surplus"
  /\ recent' = IF Len(recent) > MaxDevices THEN SubSeq(recent, 1, MaxDevices) ELSE recent
  /\ Finish(s)
  /\ UNCHANGED <<tick, account, challenge, device, handlers>>

\* pruneExpiredDevices and pruneExpiredChallenges.
PruneSignIn ==
  /\ recent' = Without(recent, {d \in ToSet(recent) : device[d] < tick})
  /\ challenge' = [c \in DOMAIN challenge |->
       IF challenge[c].expires < tick /\ \A s \in Slots : handler[s].c # c
       THEN [challenge[c] EXCEPT !.kind = "gone"] ELSE challenge[c]]
  /\ <<recent, challenge>>' # <<recent, challenge>>
  /\ UNCHANGED <<tick, account, device, handler, handlers>>

(***************************************************************************)
(* POST /auth/login/start                                                  *)
(***************************************************************************)

\* The account is looked up.  `known` is false for a name nobody has.
LoginStart(s) ==
  \E d \in 0 .. Len(device), known \in BOOLEAN :
    /\ Begin(s, [Idle EXCEPT
         !.pc = IF d # 0 /\ known /\ account.enrolled /\ account.open
                  THEN "device" ELSE IF known THEN "issue" ELSE "issueUnknown",
         !.d = d, !.row = account])
    /\ UNCHANGED <<tick, account, challenge, device, recent>>

\* isDeviceTrusted: a mismatch of the binding revokes the device.
DeviceCheck(s) ==
  LET d == handler[s].d
  IN  /\ handler[s].pc = "device"
      /\ \/ /\ Live(d) /\ device[d] > tick
            /\ \/ /\ recent' = <<d>> \o Drop(d)
                  /\ To(s, "deviceLock")
               \/ /\ recent' = Drop(d)
                  /\ To(s, "issue")
         \/ /\ ~ Live(d) \/ device[d] <= tick
            /\ To(s, "issue")
            /\ UNCHANGED recent
      /\ UNCHANGED <<tick, account, challenge, device, handlers>>

\* Mutated: a remembered device is not held up by a lock.
DeviceLockMut(s) ==
  /\ handler[s].pc = "deviceLock"
  /\ To(s, "deviceGrant")
  /\ UNCHANGED <<tick, account, challenge, device, recent, handlers>>

DeviceLock(s) ==
  /\ handler[s].pc = "deviceLock"
  /\ IF Locked THEN Finish(s) ELSE To(s, "deviceGrant")
  /\ UNCHANGED <<tick, account, challenge, device, recent, handlers>>

LoginIssue(s) ==
  \/ handler[s].pc = "issue" /\ Issue(s, "LOGIN_TOTP", TRUE)
  \/ handler[s].pc = "issueUnknown" /\ Issue(s, "LOGIN_TOTP", FALSE)

(***************************************************************************)
(* POST /auth/login/verify                                                 *)
(***************************************************************************)

VerifyPeek(s) ==
  \E c \in DOMAIN challenge, code \in {"totp", "wrong"} \cup Codes :
    /\ Peeks(c, "LOGIN_TOTP")
    /\ Begin(s, [Idle EXCEPT !.pc = "load", !.c = c, !.code = code])
    /\ UNCHANGED <<tick, account, challenge, device, recent>>

\* The account row with its recovery codes.
VerifyLoad(s) ==
  /\ handler[s].pc = "load"
  /\ handler' = [handler EXCEPT ![s].row = account,
       ![s].pc = IF challenge[handler[s].c].known THEN "verifyLock" ELSE "attemptOnly"]
  /\ UNCHANGED <<tick, account, challenge, device, recent, handlers>>

VerifyLock(s) ==
  /\ handler[s].pc = "verifyLock"
  /\ IF Locked \/ ~ handler[s].row.open \/ ~ handler[s].row.enrolled
       THEN Finish(s) ELSE To(s, "answer")
  /\ UNCHANGED <<tick, account, challenge, device, recent, handlers>>

\* verifyTotp: k is the step the code was made in; one not later than the
\* last accepted step is a replay.
VerifyTotp(row, code, k) == code = "totp" /\ k \in (tick - Window) .. (tick + Window) /\ k > row.step

VerifyAnswer(s) ==
  /\ handler[s].pc = "answer"
  /\ LET h == handler[s]
     IN \/ /\ h.code \in h.row.unused
           /\ To(s, "consume")
        \/ \E k \in (tick - Window) .. (tick + Window) :
             /\ VerifyTotp(h.row, h.code, k)
             /\ handler' = [handler EXCEPT ![s].pc = "consume", ![s].step = k]
        \/ /\ \/ h.code \in (Codes \ h.row.unused) \cup {"wrong"}
              \/ h.code = "totp" /\ h.row.step >= tick - Window
           /\ To(s, "attempt")
  /\ UNCHANGED <<tick, account, challenge, device, recent, handlers>>

\* The transaction that closes a sign-in.
VerifyCommit(s) ==
  /\ handler[s].pc = "commit"
  /\ LET h == handler[s]
     IN  account' = [account EXCEPT !.fails = 0, !.until = 0, !.unused = @ \ {h.code},
                       !.step = IF h.code = "totp" THEN h.step ELSE @]
  /\ handler' = [Lifted(handler) EXCEPT ![s].pc = "grant"]
  /\ UNCHANGED <<tick, challenge, device, recent, handlers>>

(***************************************************************************)
(* POST /auth/admin/login                                                  *)
(***************************************************************************)

\* `code` says whether the password is right.
PasswordLogin(s) ==
  \E code \in {"right", "wrong"} :
    /\ Begin(s, [Idle EXCEPT !.pc = "passwordLock", !.code = code, !.row = account])
    /\ UNCHANGED <<tick, account, challenge, device, recent>>

PasswordLock(s) ==
  /\ handler[s].pc = "passwordLock"
  /\ IF Locked THEN Finish(s)
     ELSE IF handler[s].code = "wrong" THEN To(s, "failure")
     ELSE IF ~ handler[s].row.open THEN Finish(s) ELSE To(s, "clear")
  /\ UNCHANGED <<tick, account, challenge, device, recent, handlers>>

\* clearAuthFailures.
PasswordClear(s) ==
  /\ handler[s].pc = "clear"
  /\ account' = [account EXCEPT !.fails = 0, !.until = 0, !.last = -1]
  /\ handler' = [Lifted(handler) EXCEPT ![s].pc =
       IF handler[s].row.must \/ ~ handler[s].row.enrolled THEN "grantPlain" ELSE "issue"]
  /\ UNCHANGED <<tick, challenge, device, recent, handlers>>

\* createSession, for each of the three ways to come here.
Grant(s) ==
  /\ handler[s].pc \in {"deviceGrant", "grantPlain", "grant"}
  /\ IF handler[s].pc = "grant"
       THEN /\ challenge' = [challenge EXCEPT ![handler[s].c].admitted = @ + 1]
            /\ \/ handler[s].code = "totp" /\ To(s, "trust")
               \/ Finish(s)
       ELSE Finish(s) /\ UNCHANGED challenge
  /\ UNCHANGED <<tick, account, device, recent, handlers>>

(***************************************************************************)
(* Signed in: change-password, enrolment, step-up                          *)
(***************************************************************************)

ChangePassword(s) ==
  \E right \in BOOLEAN :
    /\ Begin(s, [Idle EXCEPT !.pc = IF right THEN "rotate" ELSE "failure"])
    /\ UNCHANGED <<tick, account, challenge, device, recent>>

\* The transaction; the statement after it revokes the devices.
PasswordRotate(s) ==
  /\ handler[s].pc = "rotate"
  /\ account' = [account EXCEPT !.must = FALSE]
  /\ To(s, "revoke")
  /\ UNCHANGED <<tick, challenge, device, recent, handlers>>

RevokeDevices(s) ==
  /\ handler[s].pc \in {"revoke", "revokeEnrol"}
  /\ RevokeAllDevices
  /\ IF handler[s].pc = "revoke" THEN Finish(s) ELSE To(s, "enrol")
  /\ UNCHANGED <<tick, account, challenge, device, handlers>>

EnrolStart(s) ==
  /\ ~ account.enrolled /\ ~ account.must
  /\ Begin(s, [Idle EXCEPT !.pc = "issueEnrol"])
  /\ UNCHANGED <<tick, account, challenge, device, recent>>

EnrolIssue(s) == handler[s].pc = "issueEnrol" /\ Issue(s, "TOTP_ENROLLMENT", TRUE)

EnrolConfirm(s) ==
  \E c \in DOMAIN challenge, code \in {"totp", "wrong"} :
    /\ Peeks(c, "TOTP_ENROLLMENT")
    /\ Begin(s, [Idle EXCEPT !.pc = IF code = "totp" THEN "consumeEnrol" ELSE "attemptOnly",
                             !.c = c, !.code = code, !.step = tick])
    /\ UNCHANGED <<tick, account, challenge, device, recent>>

EnrolCommit(s) ==
  /\ handler[s].pc = "enrol"
  /\ account' = [account EXCEPT !.enrolled = TRUE, !.open = TRUE, !.step = handler[s].step,
                                !.unused = Codes]
  /\ Finish(s)
  /\ UNCHANGED <<tick, challenge, device, recent, handlers>>

\* The row is the one the session was resolved with; the step is written back.
StepUp(s) ==
  /\ account.enrolled /\ account.open
  /\ \E code \in {"totp", "wrong"}, k \in (tick - Window) .. (tick + Window) :
       Begin(s, [Idle EXCEPT !.pc = IF VerifyTotp(account, code, k) THEN "stepWrite" ELSE "failure",
                             !.step = k])
  /\ UNCHANGED <<tick, account, challenge, device, recent>>

StepWrite(s) ==
  /\ handler[s].pc = "stepWrite"
  /\ account' = [account EXCEPT !.step = handler[s].step]
  /\ Finish(s)
  /\ UNCHANGED <<tick, challenge, device, recent, handlers>>

\* Another administrator suspends or restores the account.
Suspend ==
  /\ account' = [account EXCEPT !.open = ~ @]
  /\ UNCHANGED <<tick, challenge, device, recent, handler, handlers>>

TimePasses ==
  /\ tick < LastTick
  /\ tick' = tick + 1
  /\ handler' = IF account.until > tick + 1 THEN handler ELSE Lifted(handler)
  /\ UNCHANGED <<account, challenge, device, recent, handlers>>

\* An account in its first run, or one that is enrolled, remembers a device and
\* has begun to sign in from another, or one whose device is no longer good.
SignInInit ==
  /\ tick = 0
  /\ \/ /\ account = Idle.row
        /\ challenge = <<>> /\ device = <<>> /\ recent = <<>>
     \/ /\ account = [Idle.row EXCEPT !.enrolled = TRUE, !.must = FALSE, !.unused = Codes]
        /\ recent = <<1>>
        /\ \/ challenge = <<NewChallenge("LOGIN_TOTP", TRUE)>> /\ device = <<DeviceLife>>
           \/ challenge = <<>> /\ device = <<0>>
  /\ handler = [s \in Slots |-> Idle]
  /\ handlers = 0

SignInNext ==
  \/ \E s \in Slots :
       \/ FailureRead(s) \/ FailureWrite(s) \/ Attempt(s) \/ Consume(s)
       \/ TrustDevice(s) \/ CutSurplus(s)
       \/ LoginStart(s) \/ DeviceCheck(s) \/ DeviceLock(s) \/ LoginIssue(s)
       \/ VerifyPeek(s) \/ VerifyLoad(s) \/ VerifyLock(s) \/ VerifyAnswer(s) \/ VerifyCommit(s)
       \/ PasswordLogin(s) \/ PasswordLock(s) \/ PasswordClear(s) \/ Grant(s)
       \/ ChangePassword(s) \/ PasswordRotate(s) \/ RevokeDevices(s)
       \/ EnrolStart(s) \/ EnrolIssue(s) \/ EnrolConfirm(s) \/ EnrolCommit(s)
       \/ StepUp(s) \/ StepWrite(s)
  \/ PruneSignIn \/ Suspend \/ TimePasses

SignInSpec == SignInInit /\ [][SignInNext]_signInVars

(***************************************************************************)
(* Properties                                                              *)
(***************************************************************************)

\* A challenge lets at most one sign-in through, however many handlers read it
\* before it was consumed.
ChallengeOnce == \A c \in DOMAIN challenge : challenge[c].admitted <= 1

\* The wrong answers a challenge takes exceed its limit by no more than the
\* handlers that had already read it.
AttemptsBounded ==
  \A c \in DOMAIN challenge : challenge[c].attempts <= MaxAttempts + Cardinality(Slots) - 1

\* Remembered devices exceed their limit only while a handler is about to cut
\* the list.
DevicesBounded ==
  Len(recent) <= MaxDevices + Cardinality({s \in Slots : handler[s].pc = "surplus"})

SignInCounts == ChallengeOnce /\ AttemptsBounded /\ DevicesBounded

\* No path lets a sign-in through that began while the account was locked and
\* whose lock nothing has lifted: neither the code, nor the password, nor a
\* remembered device.
LockHolds ==
  [][\A s \in Slots :
       handler[s].pc \in {"deviceGrant", "grantPlain", "grant"} /\ handler'[s].pc # handler[s].pc
         => ~ handler[s].barred]_signInVars
=============================================================================
