------------------------------- MODULE MCUsers -------------------------------
(***************************************************************************)
(* Instances of the components around accounts.  Accounts, installations, *)
(* the settings cache, the rate limiter and the HTTP requests share no     *)
(* state, so the run explores one of them after the other: "side" says     *)
(* which one, and the variables of the others keep their initial values.   *)
(***************************************************************************)
EXTENDS Accounts, TLC

CONSTANTS
  Owners, Installations, States, NoRow, StateLife, TokenLife, Buffer, MaxGithubTime,
  Keys, Values, Readers, Writers, NoEntry, TTL, MaxDelay, MaxCacheTime,
  Clients, NoBucket, Burst, Refill, MaxClock, MaxResets, MaxAttempts

VARIABLES
  side,
  inst, states, github, greq, gnow, passed, goverlapped,
  db, cache, reader, writer, cnow, current, raced,
  generation, bucket, fetched, clock, allowed,
  handler, defect, live, items, mounted, recorded, holder, att, doubled, restarted

Github == INSTANCE GithubInstallations WITH
  Users <- Owners, MaxTime <- MaxGithubTime, req <- greq, now <- gnow, overlapped <- goverlapped
Cache == INSTANCE SettingsCache WITH MaxTime <- MaxCacheTime, now <- cnow
Limiter == INSTANCE RateLimiter WITH MaxTime <- MaxClock
Http == INSTANCE HttpApi

ASSUME GithubConstants == Github!InstallationsAssumption
ASSUME CacheConstants == Cache!SettingsAssumption
ASSUME LimiterConstants == Limiter!LimiterAssumption
ASSUME HttpConstants == Http!HttpAssumption

gvars == <<inst, states, github, greq, gnow, passed, goverlapped>>
cvars == <<db, cache, reader, writer, cnow, current, raced>>
lvars == <<generation, bucket, fetched, clock, allowed>>
hvars == <<handler, defect, live, items, mounted, recorded, holder, att, doubled, restarted>>
allvars == <<side, vars, gvars, cvars, lvars, hvars>>

(* The requests have many initial states of their own; on the other sides *)
(* the request is one that is never sent.                                  *)
MCInit ==
  /\ side \in {"accounts", "installations", "settings", "limiter", "requests"}
  /\ Init /\ Github!Init /\ Cache!CacheInit /\ Limiter!LimiterInit /\ Http!HttpInit
  /\ side # "requests" => handler = Http!Health

(* Once requests of an account have overlapped, the account is followed    *)
(* until the clock stops: most properties then claim nothing of it.        *)
MCNext ==
  /\ UNCHANGED side
  /\ \/ /\ side = "accounts" /\ (overlapped = {} \/ now < MaxTime) /\ Next
        /\ UNCHANGED <<gvars, cvars, lvars, hvars>>
     \/ /\ side = "installations" /\ Github!Next
        /\ UNCHANGED <<vars, cvars, lvars, hvars>>
     \/ /\ side = "settings" /\ Cache!CacheNext
        /\ UNCHANGED <<vars, gvars, lvars, hvars>>
     \/ /\ side = "limiter" /\ Limiter!LimiterNext
        /\ UNCHANGED <<vars, gvars, cvars, hvars>>
     \/ /\ side = "requests" /\ Http!HttpNext
        /\ UNCHANGED <<vars, gvars, cvars, lvars>>

MCSpec == MCInit /\ [][MCNext]_allvars

(* The sides share model values (owners are named like passwords, readers  *)
(* like requests), so that the group of permutations stays small.          *)
Symmetry == Permutations(Requests) \cup Permutations(TokenIds)
              \cup Permutations(Strong)

-----------------------------------------------------------------------------
(* The properties of the instances, under their own names; the modules     *)
(* state what they are about.                                              *)

(* Accounts, installations, HTTP requests: shape of rows and tokens.       *)
UsersTypeOK == TypeOK /\ Github!InstallationsTypeOK /\ Http!HttpTypeOK
(* Installations: one callback per OAuth state, no token on a row that is  *)
(* gone, and only the owner's own callback reactivates a row.              *)
InstallationSound == Github!InstallationSound
(* Settings: how old a served value is, and that an update is served.      *)
SettingsFresh == Cache!SettingsFresh
(* HTTP: a repeated request makes its thing once, answers are true, and a  *)
(* defective request changes nothing.                                      *)
RequestsAreHonest == Http!RequestsAreHonest
(* Mails: the limiter lets one burst through per map of buckets, and the   *)
(* refill; and mails that were sent are apart.                             *)
MailsLimited == Limiter!MailsBounded /\ ResendSpaced
=============================================================================
