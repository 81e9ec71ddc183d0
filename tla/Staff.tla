------------------------------- MODULE Staff -------------------------------
(***************************************************************************)
(* Accounts that sign in with a password: the administrator and the        *)
(* sub-administrators it creates (routes/panel-accounts.ts), the guards of *)
(* plugins/auth.ts in front of panel actions, and the two steps through    *)
(* which such an account becomes usable (routes/admin-auth.ts).            *)
(***************************************************************************)

CONSTANTS
  Subs,        \* accounts created as SUB_ADMIN
  PanelPerms   \* PanelPermission; "accounts" stands for panel:accounts

ASSUME StaffAssumption == "accounts" \in PanelPerms /\ "admin" \notin Subs

Staff == Subs \cup {"admin"}

VARIABLE staff  \* account -> its columns

\* requireActiveAccount, and an elevated session, which its sign-in gave.
Ready(a) == staff[a].made /\ staff[a].verified /\ ~ staff[a].must /\ staff[a].status = "ACTIVE"

\* panelPermissionsFor.
PanelPermissionsFor(a) == IF staff[a].type = "ADMIN" THEN PanelPerms ELSE staff[a].perms

\* requirePanelPermission, for a panel account's own page and the others'.
MayAct(a, permission) == Ready(a) /\ permission \in PanelPermissionsFor(a)

\* POST /admin/panel-accounts; assertCanGrant bounds what is given.
CreateSubAdmin ==
  \E s \in Subs, w \in Staff, p \in SUBSET PanelPerms :
    /\ ~ staff[s].made /\ MayAct(w, "accounts") /\ p \subseteq PanelPermissionsFor(w)
    /\ staff' = [staff EXCEPT ![s].made = TRUE, ![s].perms = p]

\* PATCH /admin/panel-accounts/:accountId, never one's own; a suspension also
\* revokes the sessions (module Sessions).
UpdateSubAdmin ==
  \E s \in Subs, w \in Staff :
    /\ w # s /\ staff[s].made /\ MayAct(w, "accounts")
    /\ \/ \E p \in SUBSET PanelPermissionsFor(w) : staff' = [staff EXCEPT ![s].perms = p]
       \/ \E st \in {"ACTIVE", "SUSPENDED", "DISABLED"} : staff' = [staff EXCEPT ![s].status = st]

\* POST /auth/admin/change-password is for accounts of type ADMIN.
ChangeOwnPassword(a) ==
  /\ staff[a].made /\ staff[a].must /\ staff[a].type = "ADMIN"
  /\ staff' = [staff EXCEPT ![a].must = FALSE]

\* POST /auth/totp/enroll/confirm; the step before it refuses an account whose
\* password must still change.
EnrolStaff(a) ==
  /\ staff[a].made /\ ~ staff[a].must /\ ~ staff[a].verified
  /\ staff' = [staff EXCEPT ![a].verified = TRUE, ![a].status = "ACTIVE"]

\* ensureBootstrapAdmin has created the administrator.
StaffInit ==
  staff = [a \in Staff |->
       [type |-> IF a = "admin" THEN "ADMIN" ELSE "SUB_ADMIN", made |-> a = "admin",
        must |-> TRUE, verified |-> FALSE, status |-> "PENDING_TOTP", perms |-> {}]]

StaffNext ==
  \/ CreateSubAdmin \/ UpdateSubAdmin
  \/ \E a \in Staff : ChangeOwnPassword(a) \/ EnrolStaff(a)

\* Whoever is sent through the first-run steps goes on taking them.
StaffSpec ==
  /\ StaffInit /\ [][StaffNext]_staff
  /\ \A a \in Staff : WF_staff(ChangeOwnPassword(a)) /\ WF_staff(EnrolStaff(a))

(***************************************************************************)
(* Properties                                                              *)
(***************************************************************************)

\* A sub-administrator that is created gets to work, unless it is suspended or
\* disabled: "The account must change this password and enrol two-factor
\* authentication before it can do anything." (routes/panel-accounts.ts)
SubAdminOnboards ==
  \A s \in Subs : staff[s].made ~> (Ready(s) \/ staff[s].status \in {"SUSPENDED", "DISABLED"})
=============================================================================
