------------------------------ MODULE HttpRoutes ------------------------------
(***************************************************************************)
(* What every route of the HTTP API does, in the order it does it.  A      *)
(* handler is a record:                                                    *)
(*   steps   the steps of the handler and of the use cases it calls;       *)
(*   does    what its change is: create or start one more thing, remove    *)
(*           one, end the thing the URL names, set a value, send a mail;   *)
(*   guard   what stops the same change from being made twice: "locked"    *)
(*           (checked under a row lock), "unique" and "key" (an index of   *)
(*           the table; a violation is mapped to a 409 or not), "checked"  *)
(*           (looked up in the snapshot of the transaction, no more);      *)
(*   mapper  the table that turns its errors into status codes.            *)
(*                                                                         *)
(* The steps: "session" the bearer token, "limiter" the rate limiter,      *)
(* "form" parameters and body, "find" and "project" the row the URL names, "allowed" the*)
(* permission, "hidden" a permission whose failure is answered with 404,   *)
(* "read" other rows, "ask" a service outside, "begin" a transaction that  *)
(* looks for the row and checks the permission itself, "open" one that     *)
(* does not, "commit" its end; "make" and "mount" of a container's volume, *)
(* "unmount" and "delete" of it; "trigger" and "save" of a node port; and  *)
(* "mail" a mail whose failure is the answer.                              *)
(***************************************************************************)
EXTENDS Sequences

Handler(steps, does, guard, mapper) ==
  [steps |-> steps, does |-> does, guard |-> guard, mapper |-> mapper]

Private(steps) == <<"session">> \o steps            \* behind RequireAuth
EmailRoute(steps) == <<"limiter">> \o steps         \* behind the mail limiter

-----------------------------------------------------------------------------
(* The tables of errors that are answered with 4xx.  A violated index, a   *)
(* failing query, a failing mail and every error about a token of a mail   *)
(* are in none of them and are answered with 500.                          *)
CommonErrors == {"unauthorized", "no_project", "volume"}
ContainerErrors == {"bad_form", "gone", "denied", "conflict"}
ProjectErrors == {"bad_form", "gone", "denied", "conflict", "no_project", "volume"}
UserErrors == {"bad_form", "gone", "denied", "conflict", "refused_by_service"}

ErrorMap == [container |-> ContainerErrors, project |-> ProjectErrors, user |-> UserErrors,
             none |-> {}]

-----------------------------------------------------------------------------
(* Use cases that only read, and the two shapes of those that write.       *)
ContainerChange == <<"begin", "commit">>
Transaction == <<"open", "commit">>
GetContainerUseCase == <<"find", "allowed">>
ListContainersUseCase == <<"allowed", "read">>
CheckContainerNameUseCase == <<"read">>
CheckFQDNUseCase == <<"read">>
GetTemplateUseCase == <<"read">>
GetTemplatesUseCase == <<"read">>
CreateBuildLogTokenUseCase == <<"allowed">>
BuildLogHistoryUseCase == <<"allowed", "read", "ask">>
GetProjectBySlugUseCase == <<"project", "read">>
ListProjectsUseCase == <<"read", "read">>
CheckProjectNameUseCase == <<"read">>
CheckVolumeNameUseCase == <<"read">>
GetVolumesUseCase == <<"read">>
ProjectLogTokenUseCase == <<"project">>
ProjectLogHistoryUseCase == <<"project", "ask">>
PodStatusUseCase == <<"ask">>
GetUserUseCase == <<"read">>
GetInstallationsUseCase == <<"read">>
ListRepositoriesUseCase == <<"find", "allowed", "ask">>
ListBranchesUseCase == <<"find", "allowed", "ask">>
RemoveVolumeUseCase == Transaction
DeployProjectUseCase == Transaction

-----------------------------------------------------------------------------
(* Containers: the change, then the container is read again for the answer. *)
ContainerRoute(edit, does, guard) ==
  Handler(Private(<<"find", "form">>) \o edit \o GetContainerUseCase, does, guard, "container")
ContainerView(read) == Handler(Private(<<"find">>) \o read, "none", "none", "container")

CreateContainer == Handler(Private(<<"project", "form">>) \o ContainerChange, "create", "checked", "container")
GetContainer == Handler(Private(<<"form", "find">>) \o GetContainerUseCase, "none", "none", "container")
UpdateContainer == ContainerRoute(ContainerChange, "set", "none")
DeleteContainer == Handler(Private(<<"find">>) \o ContainerChange, "end", "none", "container")
ListContainers == Handler(Private(<<"form", "project">>) \o ListContainersUseCase, "none", "none", "container")
AddEnvVar == ContainerRoute(ContainerChange, "create", "key")
UpdateEnvVar == ContainerRoute(ContainerChange, "set", "none")
DeleteEnvVar == ContainerRoute(ContainerChange, "remove", "none")
AddNetwork == ContainerRoute(ContainerChange, "create", "checked")
DeleteNetwork == ContainerRoute(ContainerChange, "remove", "none")
(* A new host name is a new row: the old id is gone afterwards.            *)
UpdateNetwork ==
  {Handler(Private(<<"form", "find", "form">>) \o ContainerChange \o GetContainerUseCase,
           does, "none", "container") : does \in {"set", "remove"}}
ListNetworks == ContainerView(GetContainerUseCase)
ListEnvVars == ContainerView(GetContainerUseCase)
AddSecret == ContainerRoute(ContainerChange, "create", "key")
UpdateSecret == ContainerRoute(ContainerChange, "set", "none")
DeleteSecret == ContainerRoute(ContainerChange, "remove", "none")
ListSecrets == ContainerView(GetContainerUseCase)
AddBuildVar == ContainerRoute(ContainerChange, "create", "key")
UpdateBuildVar == ContainerRoute(ContainerChange, "set", "none")
DeleteBuildVar == ContainerRoute(ContainerChange, "remove", "none")
ListBuildVars == ContainerView(GetContainerUseCase)
ListVolumes == ContainerView(GetContainerUseCase \o <<"list">>)
\* Mutant: the volume first, then the permission.
VolumeBeforePermission ==
  Handler(Private(<<"find", "form", "make", "allowed", "mount">>) \o GetContainerUseCase,
          "create", "checked", "container")
AddContainerVolume ==
  Handler(Private(<<"find", "allowed", "form", "make", "mount">>) \o GetContainerUseCase,
          "create", "checked", "container")
DeleteContainerVolume ==
  Handler(Private(<<"form", "find", "begin", "unmount", "delete">>) \o GetContainerUseCase,
          "remove", "none", "container")
CheckFQDN == Handler(Private(<<"form">>) \o CheckFQDNUseCase, "none", "none", "container")
CheckContainerName ==
  Handler(Private(<<"form", "project", "hidden">>) \o CheckContainerNameUseCase, "none", "none", "container")
CreateNodePort ==
  Handler(Private(<<"find", "allowed", "unused", "read", "trigger", "save">>),
          "start", "recorded", "container")
GetNodePort ==
  Handler(Private(<<"find", "allowed", "find", "read", "ask", "note">>), "none", "none", "container")
CreateBuildLogToken ==
  Handler(Private(<<"find">>) \o CreateBuildLogTokenUseCase, "none", "none", "container")
GetBuildLogHistory ==
  Handler(Private(<<"find", "form">>) \o BuildLogHistoryUseCase, "none", "none", "container")
GetTemplates == Handler(GetTemplatesUseCase, "none", "none", "container")
GetTemplate == Handler(<<"form">> \o GetTemplateUseCase, "none", "none", "container")

-----------------------------------------------------------------------------
(* Projects: a permission that fails looks like a project that is not there. *)
ProjectRoute(rest, does, guard) ==
  Handler(Private(<<"form", "project", "hidden">>) \o rest, does, guard, "project")

CreateProject ==
  Handler(Private(<<"form", "read", "read", "read">>) \o Transaction, "create", "checked", "project")
GetProject == Handler(Private(GetProjectBySlugUseCase \o <<"hidden">>), "none", "none", "project")
UpdateProject == ProjectRoute(<<"form", "read">> \o Transaction, "set", "none")
DeleteProject == Handler(Private(<<"project", "hidden">>) \o Transaction, "end", "none", "project")
ListProjects == Handler(Private(<<"form">>) \o ListProjectsUseCase, "none", "none", "project")
CheckProjectName == Handler(Private(<<"form">>) \o CheckProjectNameUseCase, "none", "none", "project")
DeployProject == ProjectRoute(DeployProjectUseCase, "start", "locked")
GetProjectStatus == ProjectRoute(<<"read">>, "none", "none")
RefreshProjectStatus == ProjectRoute(<<"read", "ask", "note">>, "none", "none")
GetProjectHealth == ProjectRoute(PodStatusUseCase, "none", "none")
AddVolume == Handler(Private(<<"form", "hidden">>) \o Transaction, "create", "locked", "project")
GetVolumes == Handler(Private(<<"form", "hidden">>) \o GetVolumesUseCase, "none", "none", "project")
RemoveVolume == Handler(Private(<<"find", "hidden">>) \o RemoveVolumeUseCase, "end", "none", "project")
CheckVolumeName == ProjectRoute(CheckVolumeNameUseCase, "none", "none")
CreateProjectLogToken ==
  Handler(Private(<<"project", "hidden">>) \o ProjectLogTokenUseCase, "none", "none", "project")
GetProjectLogHistory ==
  Handler(Private(<<"form", "project", "hidden", "form">>) \o ProjectLogHistoryUseCase, "none", "none", "project")

-----------------------------------------------------------------------------
(* Accounts.                                                               *)
Register == Handler(<<"form">> \o Transaction, "create", "unique", "user")
Login == Handler(<<"form", "read", "allowed">>, "none", "none", "user")
VerifyEmail == Handler(<<"form">> \o Transaction, "remove", "none", "user")
ResendVerificationEmail == Handler(EmailRoute(<<"form">>) \o Transaction \o <<"mail">>, "send", "none", "user")
RequestPasswordReset == Handler(EmailRoute(<<"form">>) \o Transaction, "send", "none", "user")
ResetPassword == Handler(<<"form">> \o Transaction, "remove", "none", "user")
GetCurrentUser == Handler(Private(GetUserUseCase), "none", "none", "user")
GetUserByID == Handler(Private(<<"form">>) \o GetUserUseCase, "none", "none", "user")
UpdateCurrentUser == Handler(Private(<<"form", "read", "commit">>), "set", "none", "user")
ChangePassword == Handler(Private(<<"form", "read", "allowed", "commit">>), "set", "none", "user")

(* The GitHub App.                                                         *)
ConnectGitHub == Handler(Private(<<"form">>) \o <<"open", "ask", "commit">>, "create", "key", "user")
GetInstallations == Handler(Private(GetInstallationsUseCase), "none", "none", "user")
DisconnectGitHub == Handler(Private(<<"form">>) \o ContainerChange, "end", "none", "user")
ListRepositories == Handler(Private(<<"form">>) \o ListRepositoriesUseCase, "none", "none", "user")
ListBranches == Handler(Private(<<"form">>) \o ListBranchesUseCase, "none", "none", "user")
GenerateInstallationToken ==
  Handler(Private(<<"form">>) \o <<"begin", "ask", "commit">>, "set", "none", "user")
StartInstallation == Handler(Private(<<"commit">>), "send", "none", "user")

(* Settings and health: no table of their own.                             *)
GetPublicSettings == Handler(<<"read", "read", "read">>, "none", "none", "none")
Health == Handler(<<"read">>, "none", "none", "none")

(* The routes of the server.  The OAuth callback is left out: it answers   *)
(* with a redirect whatever happens; the log streams have a module.        *)
Setup ==
  {CreateContainer, GetContainer, UpdateContainer, DeleteContainer, ListContainers,
   AddEnvVar, UpdateEnvVar, DeleteEnvVar, AddNetwork, DeleteNetwork, ListNetworks, ListEnvVars,
   AddSecret, UpdateSecret, DeleteSecret, ListSecrets, AddBuildVar, UpdateBuildVar, DeleteBuildVar,
   ListBuildVars, ListVolumes, AddContainerVolume, DeleteContainerVolume, CheckFQDN,
   CheckContainerName, CreateNodePort, GetNodePort, CreateBuildLogToken, GetBuildLogHistory,
   GetTemplates, GetTemplate, CreateProject, GetProject, UpdateProject, DeleteProject, ListProjects,
   CheckProjectName, DeployProject, GetProjectStatus, RefreshProjectStatus, GetProjectHealth,
   AddVolume, GetVolumes, RemoveVolume, CheckVolumeName, CreateProjectLogToken, GetProjectLogHistory,
   Register, Login, VerifyEmail, ResendVerificationEmail, RequestPasswordReset, ResetPassword,
   GetCurrentUser, GetUserByID, UpdateCurrentUser, ChangePassword, ConnectGitHub, GetInstallations,
   DisconnectGitHub, ListRepositories, ListBranches, GenerateInstallationToken, StartInstallation,
   GetPublicSettings, Health} \cup UpdateNetwork
=============================================================================
