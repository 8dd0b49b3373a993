----------------------------- MODULE OrgSettings -----------------------------
(***************************************************************************)
(* Settings of an organization that a request reads, changes and writes back  *)
(* whole, without a lock: the onboarding state, the janitor's configuration    *)
(* and a custom role.  A request gives some fields; "a" stands for the fields   *)
(* that keep their value when they are not given, "b" for the ones that are     *)
(* overwritten anyhow (all of onboarding's are of the first sort).  0 is the    *)
(* zero value of a field, 1 and 2 are others.                                   *)
(***************************************************************************)
EXTENDS Naturals, FiniteSets

CONSTANTS
    SettingsRequests,   \* requests in flight
    MaxSettingsWrites,  \* bound: rows written
    MaxSettingsFaults   \* bound: statements that fail

ASSUME OrgSettingsAssumption ==
    /\ IsFiniteSet(SettingsRequests)
    /\ MaxSettingsWrites \in Nat /\ MaxSettingsFaults \in Nat

VARIABLES
    settingKind,   \* which of the three the row is
    settings,      \* the row, or NoSettings
    settingsReq,   \* settingsReq[q]: where it is, what it asks and what it has read
    settingsRev,   \* history: how often the row was written
    serial,        \* history: what the writes make one after the other
    overtaken,     \* history: a write went over one that the request had not seen
    unread,        \* history: a request wrote whose read had failed
    settingsFaults

settingsVars == <<settingKind, settings, settingsReq, settingsRev, serial, overtaken, unread, settingsFaults>>

SettingKinds == {"onboarding", "janitor", "role"}
SettingRow(a, b, done) == [a |-> a, b |-> b, completed |-> done]
SettingRows == [a : 0..2, b : 0..1, completed : BOOLEAN]
NoSettings == SettingRow(0, 0, TRUE)   \* no row has this value: completed needs both
Zero == SettingRow(0, 0, FALSE)
NoSettingsRequest ==
    [pc |-> "idle", op |-> "update", a |-> 0, b |-> 0, base |-> Zero, rev |-> 0, failed |-> FALSE]

Asked == [pc : {"idle", "read", "write"}, op : {"create", "update", "delete"}, a : 0..2, b : 0..1,
          base : SettingRows, rev : 0..MaxSettingsWrites, failed : BOOLEAN]

OrgSettingsTypeOK ==
    /\ settingKind \in SettingKinds /\ settings \in SettingRows /\ serial \in SettingRows
    /\ settingsReq \in [SettingsRequests -> Asked]
    /\ settingsRev \in 0..MaxSettingsWrites
    /\ overtaken \in BOOLEAN /\ unread \in BOOLEAN
    /\ settingsFaults \in 0..MaxSettingsFaults

OrgSettingsInit ==
    /\ settingKind \in SettingKinds /\ settings = NoSettings /\ serial = NoSettings
    /\ settingsReq = [q \in SettingsRequests |-> NoSettingsRequest]
    /\ settingsRev = 0 /\ overtaken = FALSE /\ unread = FALSE /\ settingsFaults = 0

-----------------------------------------------------------------------------
\* What the getters answer when there is no row: GetOnboardingState nothing (the
\* handler starts from zeros), GetJanitorConfig its defaults.
Defaults == IF settingKind = "janitor" THEN SettingRow(1, 0, FALSE) ELSE Zero
ReadOf(row) == IF row = NoSettings THEN Defaults ELSE row

\* The fields given, over the row that was read; onboarding is completed when all
\* its steps are, and stays so.
Merge(row, a, b) ==
    LET newA == IF a = 0 THEN row.a ELSE a
        newB == IF settingKind = "onboarding" /\ b = 0 THEN row.b ELSE b
    IN  SettingRow(newA, newB, settingKind = "onboarding" /\ (row.completed \/ newA * newB # 0))

InSettings(q, pc) == settingsReq[q].pc = pc /\ UNCHANGED settingKind
EndSettings(q) == settingsReq' = [settingsReq EXCEPT ![q] = NoSettingsRequest]
settingsHistory == <<settingsRev, serial, overtaken, unread>>

\* A request arrives.  Only a custom role is created and deleted.
AskSettings(q) ==
    /\ InSettings(q, "idle")
    /\ \E op \in {"create", "update", "delete"}, a \in 0..2, b \in 0..1 :
          /\ op # "update" => settingKind = "role"
          /\ op = "create" => a # 0
          /\ op = "delete" => a = 0 /\ b = 0
          /\ settingKind = "onboarding" => a < 2
          /\ settingsReq' = [settingsReq EXCEPT ![q] =
                [NoSettingsRequest EXCEPT !.pc = IF op = "create" THEN "write" ELSE "read",
                                          !.op = op, !.a = a, !.b = b]]
    /\ UNCHANGED <<settings, settingsHistory, settingsFaults>>

\* Mutant: the row is looked up under another key and the defaults are answered.
ReadSettingsDefaults(q) ==
    /\ InSettings(q, "read")
    /\ settingsReq' = [settingsReq EXCEPT ![q].pc = "write", ![q].rev = settingsRev, ![q].base = Defaults]
    /\ UNCHANGED <<settings, settingsHistory, settingsFaults>>

\* The row is read; a role that does not exist is "not found".
ReadSettings(q) ==
    /\ InSettings(q, "read")
    /\ \/ /\ settingKind # "role" \/ settings # NoSettings
          /\ settingsReq' = [settingsReq EXCEPT ![q].pc = "write", ![q].rev = settingsRev,
                                                ![q].base = ReadOf(settings)]
       \/ settingKind = "role" /\ settings = NoSettings /\ EndSettings(q)
    /\ UNCHANGED <<settings, settingsHistory, settingsFaults>>

SettingsFault == settingsFaults < MaxSettingsFaults /\ settingsFaults' = settingsFaults + 1

\* The read fails: the role's handlers return the error; onboarding and the janitor
\* go on from an empty row.
ReadSettingsFails(q) ==
    /\ InSettings(q, "read") /\ SettingsFault
    /\ \/ settingKind = "role" /\ EndSettings(q)
       \/ /\ settingKind # "role"
          /\ settingsReq' = [settingsReq EXCEPT ![q].pc = "write", ![q].base = Zero,
                                                ![q].failed = TRUE, ![q].rev = settingsRev]
    /\ UNCHANGED <<settings, settingsHistory>>

\* A row is written, or it is not there to be written; and the histories of it.
Written(row, inOrder) ==
    /\ settingsRev < MaxSettingsWrites /\ settingsRev' = settingsRev + 1
    /\ settings' = row /\ serial' = inOrder
NothingWritten == UNCHANGED <<settings, settingsRev, serial>>
WriteHistory(q) ==
    /\ overtaken' = (overtaken \/ settingsRev # settingsReq[q].rev)
    /\ unread' = (unread \/ settingsReq[q].failed)

\* UpsertOnboardingState, UpsertJanitorConfig: every column, whether or not the row
\* is there.
UpsertSettings(q) ==
    /\ InSettings(q, "write") /\ settingKind # "role"
    /\ LET r == settingsReq[q] IN Written(Merge(r.base, r.a, r.b), Merge(ReadOf(serial), r.a, r.b))
    /\ WriteHistory(q) /\ EndSettings(q) /\ UNCHANGED settingsFaults

\* UpdateCustomRole and DeleteCustomRole: the row with that id, if it is still there;
\* the answer is the same when it is not.
UpdateCustomRole(q) ==
    /\ InSettings(q, "write") /\ settingKind = "role" /\ settingsReq[q].op = "update"
    /\ \/ /\ settings # NoSettings /\ WriteHistory(q)
          /\ LET r == settingsReq[q] IN Written(Merge(r.base, r.a, r.b), Merge(serial, r.a, r.b))
       \/ settings = NoSettings /\ NothingWritten /\ UNCHANGED <<overtaken, unread>>
    /\ EndSettings(q) /\ UNCHANGED settingsFaults

DeleteCustomRole(q) ==
    /\ InSettings(q, "write") /\ settingsReq[q].op = "delete"
    /\ \/ settings # NoSettings /\ Written(NoSettings, NoSettings)
       \/ settings = NoSettings /\ NothingWritten
    /\ EndSettings(q) /\ UNCHANGED <<overtaken, unread, settingsFaults>>

\* CreateCustomRole: the name is taken once it is there.  (A later role is another
\* row, with an id of its own.)
CreateCustomRole(q) ==
    /\ InSettings(q, "write") /\ settingsReq[q].op = "create"
    /\ LET row == SettingRow(settingsReq[q].a, settingsReq[q].b, FALSE)
       IN  \/ settingsRev = 0 /\ Written(row, row)
           \/ settingsRev > 0 /\ NothingWritten
    /\ EndSettings(q) /\ UNCHANGED <<overtaken, unread, settingsFaults>>

WriteSettingsFails(q) ==
    /\ InSettings(q, "write") /\ SettingsFault /\ EndSettings(q)
    /\ UNCHANGED <<settings, settingsHistory>>

OrgSettingsNext ==
    \E q \in SettingsRequests :
        \/ AskSettings(q) \/ ReadSettings(q) \/ ReadSettingsFails(q) \/ WriteSettingsFails(q)
        \/ UpsertSettings(q) \/ UpdateCustomRole(q) \/ DeleteCustomRole(q) \/ CreateCustomRole(q)

OrgSettingsSpec == OrgSettingsInit /\ [][OrgSettingsNext]_settingsVars

-----------------------------------------------------------------------------
\* An edit of a setting that was answered with success is in the row, unless a
\* request that had read the row before it has written the row since, or one wrote
\* it whose read had failed.
SettingsEditsKept == settings = serial \/ overtaken \/ unread

\* Its inductive form: an update that has read, and that no write has overtaken, has
\* the row in hand, or knows that its read failed; all but roles are only updated.
HoldsRow(r) ==
    /\ settingKind = "role" \/ r.op = "update"
    /\ r.pc = "write" /\ r.op = "update" =>
          r.rev <= settingsRev /\ (r.rev = settingsRev => r.failed \/ r.base = ReadOf(settings))
ReadInHand(q) == HoldsRow(settingsReq[q])

SettingsInv == OrgSettingsTypeOK /\ SettingsEditsKept /\ \A q \in SettingsRequests : ReadInHand(q)

=============================================================================
