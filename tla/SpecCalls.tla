----------------------------- MODULE SpecCalls -----------------------------
(****************************************************************************)
(* The calls on the OCI runtime spec and its bundles, and what else makes a *)
(* value for Rust to read, as tables for Outcomes.  A spec is read field by *)
(* field, to the bottom of what it holds.                                   *)
(****************************************************************************)
LOCAL INSTANCE Sequences
LOCAL INSTANCE TLC

\* As in Outcomes.
LOCAL Try(types) == types \cup {<<"thrown">>}
LOCAL Maybe(types) == types \cup {<<"Absent">>}
LOCAL ListOf(type) == <<"list">> \o type

\* As in ImageCalls.
LOCAL Asks(reading) == <<"error">> \o reading

\* A family of calls, or of fields, that all cross alike.
LOCAL Each(names, row) == [n \in names |-> row]

-----------------------------------------------------------------------------
(* The calls.                                                               *)

\* A bundle crosses as its path.  The architecture that none of `Arch`'s
\* cases names is nil to `current`, and thrown by `currentVerified`.
SpecReturns == [
  processFromImageConfig |-> {<<"OCI.Process">>},
  processDescription |-> {<<"Text">>},
  hookDescription |-> {<<"Text">>},
  decodeLinuxSeccomp |-> Try({<<"LinuxSeccomp">>}),
  defaultSeccompProfile |-> {<<"LinuxSeccomp">>},
  currentArch |-> Maybe({<<"Text">>}),
  currentVerifiedArch |-> Try({<<"Text">>}),
  currentRuntimeSpecVersion |-> {<<"RuntimeSpecVersion">>},
  linuxRLimitToOCI |-> {<<"POSIXRlimit">>},
  linuxCapabilitiesToOCI |-> Try({<<"OCI.LinuxCapabilities">>}),
  systemPlatformOCIPlatform |-> Try({<<"Platform">>})]

BundlePaths == {"createBundle", "createBundleFromData", "loadBundle"}

BundleReturns == Each(BundlePaths, Try({<<"Text">>})) @@ [
  bundleConfigPath |-> {<<"Text">>},
  bundleRootfsPath |-> {<<"Text">>},
  deleteBundle |-> Try({<<"Void">>}),
  bundleLoadConfig |-> Try({<<"Spec">>})]

\* A process's configuration comes back through a closure, not in the
\* outcome.  Only one that Rust lends can fail to be read.
ProcessConfigurationReturns == [
  processConfigurationFromImageConfig |-> {<<"Void">>},
  setTerminalIO |-> Try({<<"Void">>})]

\* A mount that is not a block device has no disk: nil.
DiskConfigReturns == [chDiskConfig |-> Maybe({<<"DiskConfig">>})]

OCIProcessReads == [
  processFromImageConfig |-> {Asks(<<"ociProcess">>)},
  processDescription |-> {Asks(<<"text">>)}]

HookReads == [hookDescription |-> {Asks(<<"text">>)}]

SeccompReads == [
  decodeLinuxSeccomp |-> {Asks(<<"seccomp">>)},
  defaultSeccompProfile |-> {Asks(<<"seccomp">>)}]

ArchReads == [
  currentArch |-> {Asks(<<"optional", "text">>)},
  currentVerifiedArch |-> {Asks(<<"text">>)}]

VersionReads == [currentRuntimeSpecVersion |-> {Asks(<<"runtimeSpecVersion">>)}]

LinuxRLimitReads == [linuxRLimitToOCI |-> {Asks(<<"posixRlimit">>)}]

LinuxCapabilitiesReads == [linuxCapabilitiesToOCI |-> {Asks(<<"ociCapabilities">>)}]

SystemPlatformReads == [systemPlatformOCIPlatform |-> {Asks(<<"platform">>)}]

BundleReads == Each(BundlePaths, {Asks(<<"text">>)}) @@ [
  bundleConfigPath |-> {Asks(<<"text">>)},
  bundleRootfsPath |-> {Asks(<<"text">>)},
  deleteBundle |-> {Asks(<<>>)},
  bundleLoadConfig |-> {Asks(<<"spec">>)}]

BundleTakes == Each(DOMAIN BundleReturns, {"path"})

ProcessConfigurationReads == [
  processConfigurationFromImageConfig |-> {Asks(<<>>)},
  setTerminalIO |-> {Asks(<<>>)}]

DiskConfigReads == [chDiskConfig |-> {Asks(<<"optional", "diskConfig">>)}]

-----------------------------------------------------------------------------
(* The values, read field by field.  Only the fields that come back as      *)
(* outcomes of their own are here: a string, a list of strings and an       *)
(* optional number cross as they are.                                       *)

SpecCasts == [spec |-> {<<"Spec">>}, root |-> {<<"Root">>}, runtimeSpecVersion |-> {<<"RuntimeSpecVersion">>}]

DiskConfigCasts == [diskConfig |-> {<<"DiskConfig">>}]

SpecParts == [
  spec |-> [hooks |-> Maybe({<<"Hooks">>}),
            process |-> Maybe({<<"OCI.Process">>}),
            mounts |-> {ListOf(<<"OCI.Mount">>)},
            annotations |-> Maybe({<<"map", "Text">>}),
            root |-> Maybe({<<"Root">>}),
            linux |-> Maybe({<<"Linux">>})]]

SpecFields == [
  spec |-> [hooks |-> <<"optional", "hooks">>,
            process |-> <<"optional", "ociProcess">>,
            mounts |-> <<"list", "ociMount">>,
            annotations |-> <<"optional", "textMap">>,
            root |-> <<"optional", "root">>,
            linux |-> <<"optional", "linux">>]]

ProcessCasts == [
  ociProcess |-> {<<"OCI.Process">>}, box |-> {<<"Box">>}, user |-> {<<"OCI.User">>},
  ociCapabilities |-> {<<"OCI.LinuxCapabilities">>}, posixRlimit |-> {<<"POSIXRlimit">>}]

\* The five sets of capabilities, each of which may be missing.
CapabilitySets == {"bounding", "effective", "inheritable", "permitted", "ambient"}

ProcessParts == [
  ociProcess |-> [consoleSize |-> Maybe({<<"Box">>}),
                  capabilities |-> Maybe({<<"OCI.LinuxCapabilities">>}),
                  user |-> {<<"OCI.User">>},
                  rlimits |-> {ListOf(<<"POSIXRlimit">>)}],
  ociCapabilities |-> Each(CapabilitySets, Maybe({ListOf(<<"Text">>)}))]

ProcessFields == [
  ociProcess |-> [consoleSize |-> <<"optional", "box">>,
                  capabilities |-> <<"optional", "ociCapabilities">>,
                  user |-> <<"user">>,
                  rlimits |-> <<"list", "posixRlimit">>],
  ociCapabilities |-> Each(CapabilitySets, <<"optional", "strings">>)]

HookCasts == [hooks |-> {<<"Hooks">>}, hook |-> {<<"Hook">>}]

HookKinds == {"prestart", "createRuntime", "createContainer", "startContainer", "poststart", "poststop"}

HookParts == [hooks |-> Each(HookKinds, {ListOf(<<"Hook">>)})]

HookFields == [hooks |-> Each(HookKinds, <<"list", "hook">>)]

OCIMountCasts == [ociMount |-> {<<"OCI.Mount">>}]

OCIMountParts == [ociMount |-> Each({"uidMappings", "gidMappings"}, Maybe({ListOf(<<"LinuxIDMapping">>)}))]

OCIMountFields == [ociMount |-> Each({"uidMappings", "gidMappings"}, <<"optional", "list", "idMapping">>)]

LinuxCasts == [
  linux |-> {<<"Linux">>}, idMapping |-> {<<"LinuxIDMapping">>}, namespace |-> {<<"LinuxNamespace">>},
  device |-> {<<"LinuxDevice">>}, personality |-> {<<"LinuxPersonality">>}]

LinuxParts == [
  linux |-> Each({"uidMappings", "gidMappings"}, {ListOf(<<"LinuxIDMapping">>)}) @@ [
    sysctl |-> Maybe({<<"map", "Text">>}),
    resources |-> Maybe({<<"LinuxResources">>}),
    namespaces |-> {ListOf(<<"LinuxNamespace">>)},
    devices |-> {ListOf(<<"LinuxDevice">>)},
    seccomp |-> Maybe({<<"LinuxSeccomp">>}),
    personality |-> Maybe({<<"LinuxPersonality">>})]]

LinuxFields == [
  linux |-> Each({"uidMappings", "gidMappings"}, <<"list", "idMapping">>) @@ [
    sysctl |-> <<"optional", "textMap">>,
    resources |-> <<"optional", "resources">>,
    namespaces |-> <<"list", "namespace">>,
    devices |-> <<"list", "device">>,
    seccomp |-> <<"optional", "seccomp">>,
    personality |-> <<"optional", "personality">>]]

SeccompCasts == [
  seccomp |-> {<<"LinuxSeccomp">>}, syscall |-> {<<"LinuxSyscall">>}, seccompArg |-> {<<"LinuxSeccompArg">>}]

SeccompParts == [
  seccomp |-> [syscalls |-> {ListOf(<<"LinuxSyscall">>)}],
  syscall |-> [args |-> {ListOf(<<"LinuxSeccompArg">>)}]]

SeccompFields == [
  seccomp |-> [syscalls |-> <<"list", "syscall">>],
  syscall |-> [args |-> <<"list", "seccompArg">>]]

ResourceCasts == [
  resources |-> {<<"LinuxResources">>}, deviceCgroup |-> {<<"LinuxDeviceCgroup">>},
  memory |-> {<<"LinuxMemory">>}, cpu |-> {<<"LinuxCPU">>}, pids |-> {<<"LinuxPids">>},
  blockIO |-> {<<"LinuxBlockIO">>}, hugepageLimit |-> {<<"LinuxHugepageLimit">>},
  network |-> {<<"LinuxNetwork">>}, rdma |-> {<<"LinuxRdma">>},
  weightDevice |-> {<<"LinuxWeightDevice">>}, throttleDevice |-> {<<"LinuxThrottleDevice">>},
  interfacePriority |-> {<<"LinuxInterfacePriority">>}]

Throttles == {"readBps", "writeBps", "readIops", "writeIops"}

ResourceParts == [
  resources |-> [devices |-> {ListOf(<<"LinuxDeviceCgroup">>)},
                 memory |-> Maybe({<<"LinuxMemory">>}),
                 cpu |-> Maybe({<<"LinuxCPU">>}),
                 pids |-> Maybe({<<"LinuxPids">>}),
                 blockIO |-> Maybe({<<"LinuxBlockIO">>}),
                 hugepageLimits |-> {ListOf(<<"LinuxHugepageLimit">>)},
                 network |-> Maybe({<<"LinuxNetwork">>}),
                 rdma |-> Maybe({<<"map", "LinuxRdma">>}),
                 unified |-> Maybe({<<"map", "Text">>})],
  network |-> [priorities |-> {ListOf(<<"LinuxInterfacePriority">>)}],
  blockIO |-> [weightDevice |-> {ListOf(<<"LinuxWeightDevice">>)}]
                @@ Each(Throttles, {ListOf(<<"LinuxThrottleDevice">>)})]

ResourceFields == [
  resources |-> [devices |-> <<"list", "deviceCgroup">>,
                 memory |-> <<"optional", "memory">>,
                 cpu |-> <<"optional", "cpu">>,
                 pids |-> <<"optional", "pids">>,
                 blockIO |-> <<"optional", "blockIO">>,
                 hugepageLimits |-> <<"list", "hugepageLimit">>,
                 network |-> <<"optional", "network">>,
                 rdma |-> <<"optional", "map", "rdma">>,
                 unified |-> <<"optional", "textMap">>],
  network |-> [priorities |-> <<"list", "interfacePriority">>],
  blockIO |-> [weightDevice |-> <<"list", "weightDevice">>]
                @@ Each(Throttles, <<"list", "throttleDevice">>)]

-----------------------------------------------------------------------------

SpecCallsReturns == [Spec |-> SpecReturns @@ BundleReturns @@ ProcessConfigurationReturns @@ DiskConfigReturns]

SpecCallsReads == [
  Spec |-> OCIProcessReads @@ HookReads @@ SeccompReads @@ ArchReads @@ VersionReads @@ LinuxRLimitReads
    @@ LinuxCapabilitiesReads @@ SystemPlatformReads @@ BundleReads @@ ProcessConfigurationReads
    @@ DiskConfigReads]

SpecCallsTakes == [Spec |-> BundleTakes]

SpecCallsCasts ==
  SpecCasts @@ ProcessCasts @@ HookCasts @@ OCIMountCasts @@ LinuxCasts @@ SeccompCasts @@ ResourceCasts
    @@ DiskConfigCasts

SpecCallsParts ==
  SpecParts @@ ProcessParts @@ HookParts @@ OCIMountParts @@ LinuxParts @@ SeccompParts @@ ResourceParts

SpecCallsFields ==
  SpecFields @@ ProcessFields @@ HookFields @@ OCIMountFields @@ LinuxFields @@ SeccompFields @@ ResourceFields
=============================================================================
