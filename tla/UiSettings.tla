----------------------------- MODULE UiSettings -----------------------------
(***************************************************************************)
(* The general settings (pages/general-settings): the form of the ports    *)
(* and the log level, what of the configuration and of the interfaces the  *)
(* ngrx store holds, the requests that load and save them, and the events  *)
(* about network adapters, which only the open page applies.               *)
(***************************************************************************)
EXTENDS Naturals, FiniteSets, UiCalls

CONSTANTS
  Ports,          \* the network interfaces that may be there
  Levels,         \* the log levels, which stand for the monitoring periods too
  DEFAULT_LEVEL,  \* the one when the configuration names none
  Configurations, \* what the server may have at first
  MaxEvents       \* bound: loads, saves, adapters and runs that come or go

VARIABLES
  config,        \* server: the configuration
  present,       \* server: the interfaces there are
  single_intf,   \* server: started in single port mode
  adapters,      \* server: the adapter event on its way
  systemConfig,  \* AppState.systemConfig
  interfaces,    \* AppState.interfaces
  getConfig,     \* onFetchSystemConfig: the request under way
  getPorts,      \* onFetchInterfaces: the request under way
  isOpen,        \* the page is there
  options,       \* deviceOptions and internetOptions
  form,          \* settingForm: the keys of its values
  dirty,         \* ... and that it was changed since a save
  inProgress,    \* settingsDisable: a run is on
  isSubmitting,  \* a save of a form with an error was tried
  posting,       \* updateSystemConfig: the request under way
  dead,          \* ... and that an error has ended the effect
  events         \* bound

serverSettings == <<config, present, single_intf, adapters>>
storeSettings == <<systemConfig, interfaces, getConfig, getPorts>>
pageSettings == <<isOpen, options, form, dirty, inProgress, isSubmitting>>
saveSettings == <<posting, dead>>
settingVars == <<serverSettings, storeSettings, pageSettings, saveSettings, events>>

NoPort == Blank
SystemConfig == [device_intf : Ports \cup {NoPort},
                 internet_intf : Ports \cup {NoPort},
                 log_level : Levels]
EmptyConfig == [device_intf |-> NoPort, internet_intf |-> NoPort,
                log_level |-> DEFAULT_LEVEL]

ASSUME UiSettingsAssumption ==
  /\ DEFAULT_LEVEL \in Levels /\ MaxEvents \in Nat
  /\ Configurations \subseteq
       {c \in SystemConfig : c.device_intf = c.internet_intf => c = EmptyConfig}

settingTypeOK ==
  /\ {config, systemConfig, form} \subseteq SystemConfig
  /\ {present, interfaces, options} \subseteq SUBSET Ports
  /\ adapters \in {Idle} \cup [at : {"sent"}, added : SUBSET Ports,
                                removed : SUBSET Ports]
  /\ getConfig \in {Idle, Asked} \cup [at : {"answered"}, body : SystemConfig]
  /\ getPorts \in {Idle, Asked} \cup [at : {"answered"}, body : SUBSET Ports]
  /\ posting \in {Idle, Failed} \cup [at : {"asked", "done"}, body : SystemConfig]
  /\ {single_intf, isOpen, dirty, inProgress, isSubmitting, dead} \subseteq BOOLEAN
  /\ events \in 0 .. MaxEvents

-----------------------------------------------------------------------------
(***************************************************************************)
(* The form.                                                               *)
(***************************************************************************)

\* transformValueToObj of a value that is an option, else of the default.
setDefaultValue(value, default, known) == IF value \in known THEN value ELSE default

\* Mutant: the internet port is read where the device port is.
setDefaultFormValuesMutant(c, known) ==
  [device_intf |-> setDefaultValue(c.device_intf, NoPort, known),
   internet_intf |-> IF single_intf THEN form.internet_intf
                     ELSE setDefaultValue(c.device_intf, NoPort, known),
   log_level |-> setDefaultValue(c.log_level, DEFAULT_LEVEL, Levels)]

\* setDefaultFormValues, after every change of the configuration: a port
\* that the page does not know as an option by now is shown as none.
setDefaultFormValues(c, known) ==
  [device_intf |-> setDefaultValue(c.device_intf, NoPort, known),
   internet_intf |-> IF single_intf THEN form.internet_intf
                     ELSE setDefaultValue(c.internet_intf, NoPort, known),
   log_level |-> setDefaultValue(c.log_level, DEFAULT_LEVEL, Levels)]

\* hasSameValues
onlyDifferentSetting(f) == f.device_intf = f.internet_intf /\ f.device_intf /= NoPort

fetchSystemConfigSuccess(c) ==
  /\ systemConfig' = c
  /\ form' = IF isOpen THEN setDefaultFormValues(c, options) ELSE form
  /\ isSubmitting' = (isSubmitting /\ ~isOpen)

fetchInterfacesSuccess(ports) ==
  /\ interfaces' = ports
  /\ options' = IF isOpen THEN ports ELSE options

\* The page is opened: the interfaces and the configuration are asked for,
\* whilst the form shows the configuration there is.
ngOnInit ==
  /\ ~isOpen /\ isOpen' = TRUE
  /\ options' = {} /\ dirty' = FALSE /\ isSubmitting' = FALSE
  /\ form' = [setDefaultFormValues(systemConfig, {}) EXCEPT
                !.internet_intf = NoPort]
  /\ getConfig' = Asked /\ getPorts' = Asked
  /\ inProgress' \in BOOLEAN
  /\ dead' = FALSE
  /\ UNCHANGED <<serverSettings, systemConfig, interfaces, posting>>

settingInit ==
  /\ config \in Configurations
  /\ single_intf \in BOOLEAN /\ (single_intf => config.internet_intf = NoPort)
  /\ present = Ports /\ adapters = Idle
  /\ systemConfig = config /\ interfaces = present
  /\ getConfig = Idle /\ getPorts = Idle
  /\ isOpen = FALSE /\ options = {} /\ form = EmptyConfig
  /\ dirty = FALSE /\ inProgress = FALSE /\ isSubmitting = FALSE
  /\ posting = Idle /\ dead = FALSE /\ events = 0

\* The page is left: what was saved may have reached the server or not, and
\* the answer will not be heard.
leaveSettings ==
  /\ isOpen /\ isOpen' = FALSE /\ posting' = Idle
  /\ config' \in {config} \cup (IF posting.at = "asked" THEN {posting.body} ELSE {})
  /\ dirty' = FALSE /\ form' = EmptyConfig /\ options' = {}
  /\ isSubmitting' = FALSE /\ inProgress' = FALSE /\ dead' = FALSE
  /\ UNCHANGED <<present, single_intf, adapters, storeSettings>>

\* reloadSetting, a link beside the ports.
reloadSetting ==
  /\ isOpen /\ ~inProgress
  /\ getConfig' = Asked /\ getPorts' = Asked
  /\ form' = setDefaultFormValues(systemConfig, options) /\ isSubmitting' = FALSE
  /\ UNCHANGED <<serverSettings, systemConfig, interfaces, isOpen, options,
                 dirty, inProgress, saveSettings>>

\* The user chooses one of the options; that of the internet is disabled in
\* single port mode.
choose ==
  /\ isOpen /\ ~inProgress
  /\ \/ \E p \in options : form' = [form EXCEPT !.device_intf = p]
     \/ ~single_intf /\ \E p \in options : form' = [form EXCEPT !.internet_intf = p]
     \/ \E l \in Levels : form' = [form EXCEPT !.log_level = l]
  /\ dirty' = TRUE /\ isSubmitting' = FALSE
  /\ UNCHANGED <<serverSettings, storeSettings, isOpen, options, inProgress,
                 saveSettings>>

\* A run starts or ends elsewhere: the form is disabled or enabled.
statusChanges ==
  /\ isOpen /\ inProgress' = ~inProgress
  /\ UNCHANGED <<serverSettings, storeSettings, isOpen, options, form, dirty,
                 isSubmitting, saveSettings>>

-----------------------------------------------------------------------------
(***************************************************************************)
(* Saving.                                                                 *)
(***************************************************************************)

\* What createSystemConfig sends.
settingData ==
  [form EXCEPT !.internet_intf = IF single_intf THEN NoPort ELSE form.internet_intf]

\* The Save button.  Whilst a request is under way, and once one has failed,
\* nothing is sent; the form counts as saved all the same.
saveSetting ==
  /\ isOpen /\ ~inProgress /\ dirty
  /\ ~(isSubmitting /\ onlyDifferentSetting(form))
  /\ IF onlyDifferentSetting(form)
     THEN isSubmitting' = TRUE /\ UNCHANGED <<dirty, posting>>
     ELSE /\ dirty' = FALSE /\ UNCHANGED isSubmitting
          /\ posting' = IF posting = Idle /\ ~dead
                        THEN [at |-> "asked", body |-> settingData] ELSE posting
  /\ UNCHANGED <<serverSettings, storeSettings, isOpen, options, form, inProgress,
                 dead>>

\* POST /system/config is tried twice.  The server may have done what it
\* could not answer.
servePost ==
  /\ posting.at = "asked"
  /\ \/ config' = posting.body /\ posting' = [posting EXCEPT !.at = "done"]
     \/ /\ config' \in {config, posting.body}
        /\ posting' = Failed
  /\ UNCHANGED <<present, single_intf, adapters, storeSettings, pageSettings,
                 dead>>

\* The answer: the store takes what was sent, and the form what it takes.
updateSystemConfig ==
  /\ posting.at \in {"done", "failed"} /\ posting' = Idle
  /\ IF posting.at = "done"
     THEN fetchSystemConfigSuccess(posting.body) /\ UNCHANGED dead
     ELSE dead' = TRUE /\ UNCHANGED <<systemConfig, form, isSubmitting>>
  /\ UNCHANGED <<serverSettings, interfaces, getConfig, getPorts, isOpen, options,
                 dirty, inProgress>>

-----------------------------------------------------------------------------
(***************************************************************************)
(* Loading, and adapters that come and go.                                 *)
(***************************************************************************)

\* The server answers one of the two requests; an error leaves all as it is.
serveSettings ==
  /\ \/ /\ getConfig = Asked /\ UNCHANGED getPorts
        /\ getConfig' \in {[at |-> "answered", body |-> config], Idle}
     \/ /\ getPorts = Asked /\ UNCHANGED getConfig
        /\ getPorts' \in {[at |-> "answered", body |-> present], Idle}
  /\ UNCHANGED <<serverSettings, systemConfig, interfaces, pageSettings, saveSettings>>

configFetched ==
  /\ getConfig.at = "answered" /\ getConfig' = Idle
  /\ fetchSystemConfigSuccess(getConfig.body)
  /\ UNCHANGED <<serverSettings, interfaces, getPorts, isOpen, options, dirty,
                 inProgress, saveSettings>>

interfacesFetched ==
  /\ getPorts.at = "answered" /\ getPorts' = Idle
  /\ fetchInterfacesSuccess(getPorts.body)
  /\ UNCHANGED <<serverSettings, systemConfig, getConfig, isOpen, form, dirty,
                 inProgress, isSubmitting, saveSettings>>

\* An adapter is plugged in or out: the server publishes the difference.
plugAdapter ==
  /\ adapters = Idle
  /\ \E p \in Ports :
       /\ present' = IF p \in present THEN present \ {p} ELSE present \cup {p}
       /\ adapters' = [at |-> "sent", added |-> present' \ present,
                       removed |-> present \ present']
  /\ UNCHANGED <<config, single_intf, storeSettings, pageSettings, saveSettings>>

\* adaptersUpdate belongs to the page: nobody else follows the adapters.
adaptersUpdate ==
  /\ adapters /= Idle /\ adapters' = Idle
  /\ IF isOpen
     THEN fetchInterfacesSuccess((interfaces \cup adapters.added) \ adapters.removed)
     ELSE UNCHANGED <<interfaces, options>>
  /\ UNCHANGED <<config, present, single_intf, systemConfig, getConfig, getPorts,
                 isOpen, form, dirty, inProgress, isSubmitting, saveSettings>>

settingNext ==
  \/ /\ events < MaxEvents /\ events' = events + 1
     /\ \/ ngOnInit \/ reloadSetting \/ statusChanges
        \/ saveSetting \/ plugAdapter
  \/ /\ UNCHANGED events
     /\ \/ leaveSettings \/ choose \/ servePost \/ updateSystemConfig
        \/ serveSettings \/ configFetched \/ interfacesFetched
        \/ adaptersUpdate

-----------------------------------------------------------------------------
(***************************************************************************)
(* Properties.                                                             *)
(***************************************************************************)

\* checkInterfacesInConfig: a port of the configuration that is not there is
\* warned of.
Missed(p) == p /= NoPort /\ p \notin interfaces
isSettingMissed == \/ Missed(systemConfig.device_intf)
                   \/ ~single_intf /\ Missed(systemConfig.internet_intf)

\* No sequence of choices, defaults, adapters and saves ends with one port
\* for both sides, and the form that has nothing left to save shows the
\* configuration of the store, if not a port that was no option when it was
\* shown; a save that was lost to an error is the exception.
FormShows(f, c) ==
  /\ f.device_intf \in {c.device_intf, NoPort}
  /\ single_intf \/ f.internet_intf \in {c.internet_intf, NoPort}
  /\ f.log_level = c.log_level
SettingsSound ==
  /\ config.device_intf = config.internet_intf => config.device_intf = NoPort
  /\ isOpen /\ ~dirty /\ posting = Idle /\ ~dead => FormShows(form, systemConfig)

\* The page says of a port that it is required ("This port is required",
\* general-settings.component.html).  A save leaves no configured device
\* port blank ...
DevicePortKept ==
  [][config.device_intf /= NoPort => config'.device_intf /= NoPort]_config
=============================================================================
