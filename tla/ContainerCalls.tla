--------------------------- MODULE ContainerCalls ---------------------------
(****************************************************************************)
(* The calls on containers, pods, processes, virtual machines, the guest's  *)
(* agent and vmnet networks, as tables for Outcomes.                        *)
(****************************************************************************)
LOCAL INSTANCE Sequences
LOCAL INSTANCE TLC

\* As in Outcomes.
LOCAL Try(types) == types \cup {<<"thrown">>}
LOCAL Maybe(types) == types \cup {<<"Absent">>}
LOCAL ListOf(type) == <<"list">> \o type

\* As in ImageCalls.
LOCAL Asks(reading) == <<"error">> \o reading

\* A family of calls that all cross alike.
LOCAL Each(calls, row) == [c \in calls |-> row]

\* A path inside a configuration is lent, and Swift finds out whether it can
\* hold it.
LOCAL Configured == {"lent path"}

-----------------------------------------------------------------------------
(* Containers and processes.                                                *)

ContainerDoes == {
  "create", "start", "stop", "kill", "resize", "closeStdin", "filesystemOperation", "copyIn", "copyOut"}

ContainerReturns == Each(ContainerDoes, Try({<<"Void">>})) @@ [
  rootfs |-> {<<"Mount">>},
  writableLayer |-> Maybe({<<"Mount">>}),
  wait |-> Try({<<"ExitStatus">>}),
  exec |-> Try({<<"CzLinuxProcess">>}),
  execWith |-> Try({<<"CzLinuxProcess">>}),
  dialVsock |-> Try({<<"Int32">>}),
  statistics |-> Try({<<"ContainerStatistics">>}),
  virtualMachineInstance |-> Try({<<"CzVirtualMachineInstance">>}),
  linuxContainer |-> Try({<<"CzLinuxContainer">>})]

\* An exit is dated, and its date may be one Rust cannot hold.
ContainerReads == Each(ContainerDoes, {Asks(<<>>)}) @@ [
  rootfs |-> {<<"mount">>},
  writableLayer |-> {<<"optional", "mount">>},
  wait |-> {Asks(<<"exitStatus", "check">>)},
  exec |-> {Asks(<<"linuxProcess">>)},
  execWith |-> {Asks(<<"linuxProcess">>)},
  dialVsock |-> {Asks(<<"int32">>)},
  statistics |-> {Asks(<<"containerStatistics">>)},
  virtualMachineInstance |-> {Asks(<<"virtualMachineInstance">>)},
  linuxContainer |-> {Asks(<<"linuxContainer">>)}]

ContainerTakes == [
  copyIn |-> {"path", "count"}, copyOut |-> {"path", "count"}, linuxContainer |-> Configured]

ProcessDoes == {"start", "kill", "resize", "closeStdin", "delete"}

ProcessReturns == Each(ProcessDoes, Try({<<"Void">>})) @@ [wait |-> Try({<<"ExitStatus">>})]

ProcessReads == Each(ProcessDoes, {Asks(<<>>)}) @@ [wait |-> {Asks(<<"exitStatus", "check">>)}]

ContainerCasts == [
  linuxContainer |-> {<<"CzLinuxContainer">>},
  linuxProcess |-> {<<"CzLinuxProcess">>},
  linuxPod |-> {<<"CzLinuxPod">>},
  containerManager |-> {<<"CzContainerManager">>}]

\* What Containerization made for a call of the bridge and for none other.
ValueCasts == [mount |-> {<<"Mount">>}, exitStatus |-> {<<"ExitStatus">>}]

-----------------------------------------------------------------------------
(* Statistics.                                                              *)

\* The numbers of a value cross as one list, in an order and of a length that
\* both sides know; a getter is named for the length that Rust expects.
StatisticsCasts == [
  containerStatistics |-> {<<"ContainerStatistics">>},
  statisticsName |-> {<<"ContainerStatistics">>, <<"NetworkStatistics">>, <<"FilesystemStatistics">>},
  numbers2 |-> {<<"ProcessStatistics">>, <<"NetworkProtocolCounters">>},
  numbers5 |-> {<<"MemoryEventStatistics">>, <<"FilesystemStatistics">>},
  numbers6 |-> {<<"CPUStatistics">>, <<"BlockIODevice">>, <<"NetworkStatistics">>},
  numbers16 |-> {<<"MemoryStatistics">>},
  optionalNumbers2 |-> {<<"NetworkStatistics">>},
  optionalNumbers6 |-> {<<"NetworkProtocolCounters">>}]

\* Seven protocols come in one list, of which the first four are always there.
StatisticsParts ==
  LET maybeNumbers == [numbers |-> {ListOf(<<"UInt64">>), ListOf(<<"Absent">>)}]
  IN  [containerStatistics |-> [
         process |-> Maybe({<<"ProcessStatistics">>}),
         memory |-> Maybe({<<"MemoryStatistics">>}),
         cpu |-> Maybe({<<"CPUStatistics">>}),
         blockIO |-> Maybe({ListOf(<<"BlockIODevice">>)}),
         network |-> Maybe({ListOf(<<"NetworkStatistics">>)}),
         memoryEvents |-> Maybe({<<"MemoryEventStatistics">>}),
         filesystem |-> Maybe({ListOf(<<"FilesystemStatistics">>)}),
         protocols |-> Maybe({ListOf(<<"NetworkProtocolCounters">>)}),
         protocolsV6 |-> Maybe({ListOf(<<"NetworkProtocolCounters">>), ListOf(<<"Absent">>)})],
       optionalNumbers2 |-> maybeNumbers,
       optionalNumbers6 |-> maybeNumbers]

StatisticsFields ==
  LET maybeNumbers == [numbers |-> <<"list", "optional", "number">>]
  IN  [containerStatistics |-> [
         process |-> <<"optional", "numbers2">>,
         memory |-> <<"optional", "numbers16">>,
         cpu |-> <<"optional", "numbers6">>,
         blockIO |-> <<"optional", "list", "numbers6">>,
         network |-> <<"optional", "list", "statisticsName", "numbers6", "optionalNumbers2">>,
         memoryEvents |-> <<"optional", "numbers5">>,
         filesystem |-> <<"optional", "list", "statisticsName", "numbers5">>,
         protocols |-> <<"optional", "list", "numbers2", "optionalNumbers6">>,
         protocolsV6 |-> <<"optional", "list", "optional", "numbers2", "optionalNumbers6">>],
       optionalNumbers2 |-> maybeNumbers,
       optionalNumbers6 |-> maybeNumbers]

-----------------------------------------------------------------------------
(* Pods and managers.                                                       *)

PodDoes == {
  "addContainer", "create", "startContainer", "stopContainer", "stop", "killContainer",
  "resizeContainer", "filesystemOperation", "closeContainerStdin", "relayUnixSocket"}

PodReturns == Each(PodDoes, Try({<<"Void">>})) @@ [
  linuxPod |-> Try({<<"CzLinuxPod">>}),
  waitContainer |-> Try({<<"ExitStatus">>}),
  execInContainer |-> Try({<<"CzLinuxProcess">>}),
  statistics |-> Try({ListOf(<<"ContainerStatistics">>)}),
  dialVsock |-> Try({<<"Int32">>}),
  virtualMachineInstance |-> Try({<<"CzVirtualMachineInstance">>})]

PodReads == Each(PodDoes, {Asks(<<>>)}) @@ [
  linuxPod |-> {Asks(<<"linuxPod">>)},
  waitContainer |-> {Asks(<<"exitStatus", "check">>)},
  execInContainer |-> {Asks(<<"linuxProcess">>)},
  statistics |-> {Asks(<<"list", "containerStatistics">>)},
  dialVsock |-> {Asks(<<"int32">>)},
  virtualMachineInstance |-> {Asks(<<"virtualMachineInstance">>)}]

PodTakes == [linuxPod |-> Configured]

ManagerMakers == {
  "containerManager", "containerManagerWithInitfsReference", "containerManagerAtRoot",
  "containerManagerAtRootWithInitfsReference", "containerManagerWithVmm"}
ManagerCreates == {"createFromReference", "create", "createWithRootfs"}
ManagerDoes == {"releaseNetwork", "delete"}

ManagerReturns ==
  Each(ManagerMakers, Try({<<"CzContainerManager">>}))
    @@ Each(ManagerCreates, Try({<<"CzLinuxContainer">>}))
    @@ Each(ManagerDoes, Try({<<"Void">>}))

ManagerReads ==
  Each(ManagerMakers, {Asks(<<"containerManager">>)})
    @@ Each(ManagerCreates, {Asks(<<"linuxContainer">>)})
    @@ Each(ManagerDoes, {Asks(<<>>)})

\* The kernel's path is lent; the root's crosses by itself.
ManagerTakes ==
  Each({"containerManager", "containerManagerWithInitfsReference"}, Configured)
    @@ Each({"containerManagerAtRoot", "containerManagerAtRootWithInitfsReference"}, Configured \cup {"path"})

-----------------------------------------------------------------------------
(* Virtual machines and their agents.                                       *)

MachineDoes == {
  "start", "stop", "pause", "resume", "registerMounts", "releaseHotplug", "hotplugVirtioFS",
  "releaseVirtioFS", "installRosetta"}

MachineReturns == Each(MachineDoes, Try({<<"Void">>})) @@ [
  virtualMachineManager |-> Try({<<"CzVirtualMachineManager">>}),
  create |-> Try({<<"CzVirtualMachineInstance">>}),
  mounts |-> {<<"map", "list", "AttachedFilesystem">>},
  dial |-> Try({<<"Int32">>}),
  listen |-> Try({<<"CzVsockListener">>}),
  hotplug |-> Try({<<"AttachedFilesystem">>}),
  dialAgent |-> Try({<<"CzVminitd">>})]

MachineReads == Each(MachineDoes, {Asks(<<>>)}) @@ [
  virtualMachineManager |-> {Asks(<<"virtualMachineManager">>)},
  create |-> {Asks(<<"virtualMachineInstance">>)},
  mounts |-> {<<"map", "list", "attachedFilesystem">>},
  dial |-> {Asks(<<"int32">>)},
  listen |-> {Asks(<<"vsockListener">>)},
  hotplug |-> {Asks(<<"attachedFilesystem">>)},
  dialAgent |-> {Asks(<<"vminitd">>)}]

MachineTakes == [virtualMachineManager |-> Configured, create |-> Configured]

AgentDoes == {
  "standardSetup", "close", "filesystemOperation", "setenv", "mount", "umount", "mkdir", "sync",
  "createProcess", "signalProcess", "resizeProcess", "deleteProcess", "closeProcessStdin", "up",
  "down", "addressAdd", "routeAddLink", "routeAddDefault", "configureDNS", "configureHosts",
  "setupEmulator", "setTime", "sysctl", "enableRosetta", "relaySocket", "stopSocketRelay"}

AgentReturns == Each(AgentDoes, Try({<<"Void">>})) @@ [
  getenv |-> Try({<<"Text">>}),
  kill |-> Try({<<"Int32">>}),
  startProcess |-> Try({<<"Int32">>}),
  waitProcess |-> Try({<<"ExitStatus">>}),
  containerStatistics |-> Try({ListOf(<<"ContainerStatistics">>)}),
  stat |-> Try({<<"Stat">>})]

AgentReads == Each(AgentDoes, {Asks(<<>>)}) @@ [
  getenv |-> {Asks(<<"text">>)},
  kill |-> {Asks(<<"int32">>)},
  startProcess |-> {Asks(<<"int32">>)},
  waitProcess |-> {Asks(<<"exitStatus", "check">>)},
  containerStatistics |-> {Asks(<<"list", "containerStatistics">>)},
  stat |-> {Asks(<<"stat">>)}]

SocketReturns == [unixSocketConfiguration |-> {<<"CzUnixSocketConfiguration">>}]

SocketReads == [unixSocketConfiguration |-> {Asks(<<"unixSocketConfiguration">>)}]

SocketTakes == [unixSocketConfiguration |-> {"path"}]

MachineCasts == [
  virtualMachineManager |-> {<<"CzVirtualMachineManager">>},
  virtualMachineInstance |-> {<<"CzVirtualMachineInstance">>},
  vsockListener |-> {<<"CzVsockListener">>},
  attachedFilesystem |-> {<<"AttachedFilesystem">>},
  vminitd |-> {<<"CzVminitd">>},
  stat |-> {<<"Stat">>},
  unixSocketConfiguration |-> {<<"CzUnixSocketConfiguration">>}]

-----------------------------------------------------------------------------
(* Vmnet networks.                                                          *)

InterfaceMakers == {"createInterface", "createInterfaceWithMtu", "createInterfaceWithoutGateway"}

VmnetReturns == Each(InterfaceMakers, Try(Maybe({<<"CzVmnetInterface">>}))) @@ [
  vmnetNetwork |-> Try({<<"CzVmnetNetwork">>}),
  subnet |-> {<<"CIDRv4">>},
  prefixV6 |-> Maybe({<<"CIDRv6">>}),
  ipv4Gateway |-> {<<"IPv4Address">>},
  ipv6Gateway |-> Maybe({<<"IPv6Address">>}),
  releaseInterface |-> Try({<<"Void">>})]

VmnetReads == Each(InterfaceMakers, {Asks(<<"optional", "vmnetInterface">>)}) @@ [
  vmnetNetwork |-> {Asks(<<"vmnetNetwork">>)},
  subnet |-> {<<"ipv4Value", "prefixLength">>},
  prefixV6 |-> {<<"optional", "ipv6Halves", "prefixLength">>},
  ipv4Gateway |-> {<<"ipv4Value">>},
  ipv6Gateway |-> {<<"optional", "ipv6Halves">>},
  releaseInterface |-> {Asks(<<>>)}]

InterfaceReturns == [
  ipv4Address |-> {<<"CIDRv4">>},
  ipv4Gateway |-> Maybe({<<"IPv4Address">>}),
  ipv6Address |-> Maybe({<<"CIDRv6">>}),
  ipv6Gateway |-> Maybe({<<"IPv6Address">>}),
  macAddress |-> Maybe({<<"MACAddress">>})]

InterfaceReads == [
  ipv4Address |-> {<<"ipv4Value", "prefixLength">>},
  ipv4Gateway |-> {<<"optional", "ipv4Value">>},
  ipv6Address |-> {<<"optional", "ipv6Halves", "prefixLength">>},
  ipv6Gateway |-> {<<"optional", "ipv6Halves">>},
  macAddress |-> {<<"optional", "macValue">>}]

VmnetCasts == [vmnetNetwork |-> {<<"CzVmnetNetwork">>}, vmnetInterface |-> {<<"CzVmnetInterface">>}]

-----------------------------------------------------------------------------

ContainerCallsReturns == [
  LinuxContainer |-> ContainerReturns, LinuxProcess |-> ProcessReturns, LinuxPod |-> PodReturns,
  ContainerManager |-> ManagerReturns, VirtualMachine |-> MachineReturns, Vminitd |-> AgentReturns,
  UnixSocket |-> SocketReturns, VmnetNetwork |-> VmnetReturns, VmnetInterface |-> InterfaceReturns]

ContainerCallsReads == [
  LinuxContainer |-> ContainerReads, LinuxProcess |-> ProcessReads, LinuxPod |-> PodReads,
  ContainerManager |-> ManagerReads, VirtualMachine |-> MachineReads, Vminitd |-> AgentReads,
  UnixSocket |-> SocketReads, VmnetNetwork |-> VmnetReads, VmnetInterface |-> InterfaceReads]

ContainerCallsTakes == [
  LinuxContainer |-> ContainerTakes, LinuxPod |-> PodTakes, ContainerManager |-> ManagerTakes,
  VirtualMachine |-> MachineTakes, UnixSocket |-> SocketTakes]

ContainerCallsCasts == ContainerCasts @@ ValueCasts @@ StatisticsCasts @@ MachineCasts @@ VmnetCasts
=============================================================================
