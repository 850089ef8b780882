----------------------------- MODULE LentFields -----------------------------
(***************************************************************************)
(* The values that Swift copies from Rust field by field.  For each type   *)
(* there are three tables, from three places in the source that no         *)
(* compiler compares:                                                      *)
(*   Holds   what the Rust struct holds in a field;                        *)
(*   Lends   the kind of getter Rust lends it through, in the words of     *)
(*           `getters!` (bridge/accessors/mod.rs:57), and for a getter     *)
(*           that is written out the kind it amounts to;                   *)
(*   Copies  how the Swift initializer reads it.                           *)
(* A table gives each kind the fields it has.  A small struct that only    *)
(* one other holds is read through its holder's getters, and its fields    *)
(* are its holder's here, under the names of those getters.                *)
(*                                                                         *)
(* Holds:   T, Option, OptionOption, Vec, OptionVec, Map and OptionMap as  *)
(*          in the struct (an OptionVec or OptionOption may be a field of  *)
(*          a struct that is optional); Wide is u128; Kind, OptionKind and *)
(*          VecKind are an enum with payloads, one that is optional, and a *)
(*          list of them; DataMap is BTreeMap<String, Vec<u8>>, and        *)
(*          OptionDataMap one that is optional.                            *)
(* Lends:   list_within is a list of an optional struct, whose length has  *)
(*          no answer without the struct; and_then is an option of an      *)
(*          optional struct that is None without it; present_twice has a   *)
(*          `has_` getter for each of two options; or_default is an        *)
(*          argument that goes with a Boolean and is empty for None; kind, *)
(*          optional_kind, list_kind and halves are as their names say;    *)
(*          joined and optional_joined are what platform::xattrs gives.    *)
(* Copies:  asks, gates (`has ? get : nil`), gates_twice, lists            *)
(*          (`list(len) { at }`), gates_lists, maps and gates_maps         *)
(*          (`dictionary`), switches (on a kind), gates_switches,          *)
(*          lists_switches, rejoins (two halves), slices and gates_slices  *)
(*          (`dataMap`).                                                   *)
(***************************************************************************)

-----------------------------------------------------------------------------
(* The OCI runtime spec.                                                   *)

SpecHolds == [T |-> {"version", "hostname", "domainname"},
  Option |-> {"hooks", "process", "root_path", "root_readonly", "linux"},
  Vec |-> {"mounts"}, OptionMap |-> {"annotations"}]
SpecLends == [str |-> {"version", "hostname", "domainname"},
  present |-> {"hooks", "process", "root_path", "root_readonly", "linux"},
  list |-> {"mounts"}, optional_map |-> {"annotations"}]
SpecCopies == [asks |-> {"version", "hostname", "domainname"},
  gates |-> {"hooks", "process", "root_path", "root_readonly", "linux"},
  lists |-> {"mounts"}, gates_maps |-> {"annotations"}]

HookHolds == [T |-> {"path"}, Vec |-> {"args", "env"}, Option |-> {"timeout"}]
HookLends == [str |-> {"path"}, list |-> {"args", "env"}, copy |-> {"timeout"}]
HookCopies == [asks |-> {"path", "timeout"}, lists |-> {"args", "env"}]

HookKinds == {"prestart", "create_runtime", "create_container",
              "start_container", "poststart", "poststop"}
HooksHolds == [Vec |-> HookKinds]
HooksLends == [list |-> HookKinds]
HooksCopies == [lists |-> HookKinds]

LinuxHolds == [T |-> {"cgroups_path", "rootfs_propagation", "mount_label"},
  Option |-> {"resources", "seccomp", "personality_domain"},
  Vec |-> {"uid_mappings", "gid_mappings", "namespaces", "devices",
           "masked_paths", "readonly_paths"},
  OptionVec |-> {"personality_flags"}, OptionMap |-> {"sysctl"}]
LinuxLends == [str |-> {"cgroups_path", "rootfs_propagation", "mount_label"},
  present |-> {"resources", "seccomp", "personality_domain"},
  list |-> {"uid_mappings", "gid_mappings", "namespaces", "devices",
            "masked_paths", "readonly_paths"},
  list_within |-> {"personality_flags"}, optional_map |-> {"sysctl"}]
LinuxCopies == [asks |-> {"cgroups_path", "rootfs_propagation", "mount_label"},
  gates |-> {"resources", "seccomp", "personality_domain"},
  lists |-> {"uid_mappings", "gid_mappings", "namespaces", "devices",
             "masked_paths", "readonly_paths"},
  gates_lists |-> {"personality_flags"}, gates_maps |-> {"sysctl"}]

LinuxIDMappingHolds == [T |-> {"container_id", "host_id", "size"}]
LinuxIDMappingLends == [copy |-> {"container_id", "host_id", "size"}]
LinuxIDMappingCopies == [asks |-> {"container_id", "host_id", "size"}]

LinuxDeviceHolds == [T |-> {"path", "type", "major", "minor"},
  Option |-> {"file_mode", "uid", "gid"}]
LinuxDeviceLends == [str |-> {"path", "type"},
  copy |-> {"major", "minor", "file_mode", "uid", "gid"}]
LinuxDeviceCopies == [
  asks |-> {"path", "type", "major", "minor", "file_mode", "uid", "gid"}]

MountHolds == [T |-> {"type", "source", "destination"}, Vec |-> {"options"},
  OptionVec |-> {"uid_mappings", "gid_mappings"}]
MountLends == [str |-> {"type", "source", "destination"}, list |-> {"options"},
  optional_list |-> {"uid_mappings", "gid_mappings"}]
MountCopies == [asks |-> {"type", "source", "destination"},
  lists |-> {"options"}, gates_lists |-> {"uid_mappings", "gid_mappings"}]

ProcessHolds == [
  T |-> {"cwd", "selinux_label", "no_new_privileges", "command_line",
         "apparmor_profile", "user", "terminal"},
  Option |-> {"console_height", "console_width", "oom_score_adj",
              "capabilities"},
  Vec |-> {"env", "rlimits", "args"}]
ProcessLends == [
  str |-> {"cwd", "selinux_label", "command_line", "apparmor_profile"},
  copy |-> {"no_new_privileges", "oom_score_adj", "terminal"},
  borrow |-> {"user"},
  present |-> {"console_height", "console_width", "capabilities"},
  list |-> {"env", "rlimits", "args"}]
ProcessCopies == [
  asks |-> {"cwd", "selinux_label", "no_new_privileges", "command_line",
            "oom_score_adj", "apparmor_profile", "user", "terminal"},
  gates |-> {"console_height", "console_width", "capabilities"},
  lists |-> {"env", "rlimits", "args"}]

UserHolds == [T |-> {"uid", "gid", "username"}, Option |-> {"umask"},
  Vec |-> {"additional_gids"}]
UserLends == [copy |-> {"uid", "gid", "umask"}, str |-> {"username"},
  list |-> {"additional_gids"}]
UserCopies == [asks |-> {"uid", "gid", "umask", "username"},
  lists |-> {"additional_gids"}]

CapabilitySets ==
  {"bounding", "effective", "inheritable", "permitted", "ambient"}
LinuxCapabilitiesHolds == [OptionVec |-> CapabilitySets]
LinuxCapabilitiesLends == [optional_list |-> CapabilitySets]
LinuxCapabilitiesCopies == [gates_lists |-> CapabilitySets]

LinuxResourcesHolds == [Option |-> {"memory", "cpu", "pids", "block_io"},
  OptionOption |-> {"network_class_id"},
  Vec |-> {"devices", "hugepage_limits"},
  OptionVec |-> {"network_priorities"}, OptionMap |-> {"rdma", "unified"}]
LinuxResourcesLends == [copy |-> {"pids"},
  present |-> {"memory", "cpu", "block_io", "network_class_id"},
  list |-> {"devices", "hugepage_limits"},
  list_within |-> {"network_priorities"}, optional_map |-> {"rdma", "unified"}]
LinuxResourcesCopies == [asks |-> {"pids"},
  gates |-> {"memory", "cpu", "block_io", "network_class_id"},
  lists |-> {"devices", "hugepage_limits"},
  gates_lists |-> {"network_priorities"}, gates_maps |-> {"rdma", "unified"}]

LinuxMemoryHolds == [Option |->
  {"limit", "reservation", "swap", "kernel", "kernel_tcp", "swappiness",
   "disable_oom_killer", "use_hierarchy", "check_before_update"}]
LinuxMemoryLends == [copy |->
  {"limit", "reservation", "swap", "kernel", "kernel_tcp", "swappiness",
   "disable_oom_killer", "use_hierarchy", "check_before_update"}]
LinuxMemoryCopies == [asks |->
  {"limit", "reservation", "swap", "kernel", "kernel_tcp", "swappiness",
   "disable_oom_killer", "use_hierarchy", "check_before_update"}]

LinuxCPUHolds == [T |-> {"cpus", "mems"},
  Option |-> {"shares", "quota", "burst", "period", "realtime_runtime",
              "realtime_period", "idle"}]
LinuxCPULends == [str |-> {"cpus", "mems"},
  copy |-> {"shares", "quota", "burst", "period", "realtime_runtime",
            "realtime_period", "idle"}]
LinuxCPUCopies == [
  asks |-> {"shares", "quota", "burst", "period", "realtime_runtime",
            "realtime_period", "cpus", "mems", "idle"}]

ThrottleKinds == {"throttle_read_bps_device", "throttle_write_bps_device",
                  "throttle_read_iops_device", "throttle_write_iops_device"}
LinuxBlockIOHolds == [Option |-> {"weight", "leaf_weight"},
  Vec |-> {"weight_device"} \cup ThrottleKinds]
LinuxBlockIOLends == [copy |-> {"weight", "leaf_weight"},
  list |-> {"weight_device"} \cup ThrottleKinds]
LinuxBlockIOCopies == [asks |-> {"weight", "leaf_weight"},
  lists |-> {"weight_device"} \cup ThrottleKinds]

LinuxDeviceCgroupHolds == [T |-> {"allow", "type"},
  Option |-> {"major", "minor", "access"}]
LinuxDeviceCgroupLends == [copy |-> {"allow", "major", "minor"},
  str |-> {"type"}, optional_str |-> {"access"}]
LinuxDeviceCgroupCopies == [
  asks |-> {"allow", "type", "major", "minor", "access"}]

LinuxSeccompHolds == [
  T |-> {"default_action", "listener_path", "listener_metadata"},
  Option |-> {"default_errno_ret"},
  Vec |-> {"architectures", "flags", "syscalls"}]
LinuxSeccompLends == [
  str |-> {"default_action", "listener_path", "listener_metadata"},
  copy |-> {"default_errno_ret"},
  list |-> {"architectures", "flags", "syscalls"}]
LinuxSeccompCopies == [
  asks |-> {"default_action", "default_errno_ret", "listener_path",
            "listener_metadata"},
  lists |-> {"architectures", "flags", "syscalls"}]

LinuxSyscallHolds == [T |-> {"action"}, Option |-> {"errno_ret"},
  Vec |-> {"names", "args"}]
LinuxSyscallLends == [str |-> {"action"}, copy |-> {"errno_ret"},
  list |-> {"names", "args"}]
LinuxSyscallCopies == [asks |-> {"action", "errno_ret"},
  lists |-> {"names", "args"}]

-----------------------------------------------------------------------------
(* Images.                                                                 *)

PlatformHolds == [T |-> {"architecture", "os"},
  Option |-> {"os_version", "variant"}, OptionVec |-> {"os_features"}]
PlatformLends == [str |-> {"architecture", "os"},
  optional_str |-> {"os_version", "variant"},
  optional_list |-> {"os_features"}]
PlatformCopies == [asks |-> {"architecture", "os", "os_version", "variant"},
  gates_lists |-> {"os_features"}]

DescriptorHolds == [T |-> {"media_type", "digest", "size"},
  Option |-> {"platform", "artifact_type"}, OptionVec |-> {"urls"},
  OptionMap |-> {"annotations"}]
DescriptorLends == [str |-> {"media_type", "digest"}, copy |-> {"size"},
  optional_list |-> {"urls"}, optional_map |-> {"annotations"},
  present |-> {"platform"}, optional_str |-> {"artifact_type"}]
DescriptorCopies == [
  asks |-> {"media_type", "digest", "size", "artifact_type"},
  gates |-> {"platform"}, gates_lists |-> {"urls"},
  gates_maps |-> {"annotations"}]

IndexHolds == [T |-> {"schema_version", "media_type"},
  Option |-> {"subject", "artifact_type"}, Vec |-> {"manifests"},
  OptionMap |-> {"annotations"}]
IndexLends == [copy |-> {"schema_version"}, str |-> {"media_type"},
  list |-> {"manifests"}, optional_map |-> {"annotations"},
  present |-> {"subject"}, optional_str |-> {"artifact_type"}]
IndexCopies == [asks |-> {"schema_version", "media_type", "artifact_type"},
  lists |-> {"manifests"}, gates |-> {"subject"},
  gates_maps |-> {"annotations"}]

ImageConfigHolds == [Option |-> {"user", "working_dir", "stop_signal"},
  OptionVec |-> {"env", "entrypoint", "cmd"}, OptionMap |-> {"labels"}]
ImageConfigLends == [optional_str |-> {"user", "working_dir", "stop_signal"},
  optional_list |-> {"env", "entrypoint", "cmd"}, optional_map |-> {"labels"}]
ImageConfigCopies == [asks |-> {"user", "working_dir", "stop_signal"},
  gates_lists |-> {"env", "entrypoint", "cmd"}, gates_maps |-> {"labels"}]

DescriptionHolds == [T |-> {"reference", "descriptor"}]
DescriptionLends == [str |-> {"reference"}, borrow |-> {"descriptor"}]
DescriptionCopies == [asks |-> {"reference", "descriptor"}]

EXT4UnpackerHolds == [T |-> {"capacity_in_bytes"},
  OptionOption |-> {"journal_size", "journal_mode"}]
EXT4UnpackerLends == [copy |-> {"capacity_in_bytes"},
  and_then |-> {"journal_size"}, present_twice |-> {"journal_mode"}]
\* Mutant: the mode is read without `hasJournalMode`.
EXT4UnpackerCopiesUngated == [asks |-> {"capacity_in_bytes"},
  gates |-> {"journal_size", "journal_mode"}]
EXT4UnpackerCopies == [asks |-> {"capacity_in_bytes"},
  gates |-> {"journal_size"}, gates_twice |-> {"journal_mode"}]

FormatterOptionsHolds == [T |-> {"block_size", "min_disk_size"},
  OptionOption |-> {"journal_size", "journal_mode"}]
FormatterOptionsLends == [copy |-> {"block_size", "min_disk_size"},
  and_then |-> {"journal_size"}, present_twice |-> {"journal_mode"}]
FormatterOptionsCopies == [asks |-> {"block_size", "min_disk_size"},
  gates |-> {"journal_size"}, gates_twice |-> {"journal_mode"}]

-----------------------------------------------------------------------------
(* Archives.                                                               *)

ArchiveWriterConfigurationHolds == [T |-> {"format", "filter"},
  VecKind |-> {"options"}, Vec |-> {"locales"}]
ArchiveWriterConfigurationLends == [str |-> {"format", "filter"},
  list_kind |-> {"options"}, list |-> {"locales"}]
ArchiveWriterConfigurationCopies == [asks |-> {"format", "filter"},
  lists_switches |-> {"options"}, lists |-> {"locales"}]

\* What `WriteEntry::set_xattrs` passes.
WriteEntryHolds == [DataMap |-> {"xattrs"}]
WriteEntryLends == [joined |-> {"xattrs"}]
WriteEntryCopies == [slices |-> {"xattrs"}]

\* What `Formatter::create` passes; its dates and its link are left out.
CreateOptionsHolds == [T |-> {"recursion"}, Option |-> {"uid", "gid"},
  OptionVec |-> {"buf"}, OptionDataMap |-> {"xattrs"}]
CreateOptionsLends == [copy |-> {"recursion", "uid", "gid"},
  or_default |-> {"buf"}, optional_joined |-> {"xattrs"}]
CreateOptionsCopies == [asks |-> {"recursion", "uid", "gid"},
  gates |-> {"buf"}, gates_slices |-> {"xattrs"}]

-----------------------------------------------------------------------------
(* Addresses and networks.                                                 *)

IPv6AddressHolds == [Wide |-> {"value"}, Option |-> {"zone"}]
IPv6AddressLends == [halves |-> {"value"}, optional_str |-> {"zone"}]
IPv6AddressCopies == [rejoins |-> {"value"}, asks |-> {"zone"}]

IPAddressHolds == [Kind |-> {"address"}]
IPAddressLends == [kind |-> {"address"}]
IPAddressCopies == [switches |-> {"address"}]

InterfaceAddressHolds == [T |-> {"ipv4_address_value", "ipv4_address_prefix"},
  Option |-> {"ipv6_address_address", "ipv6_address_prefix"}]
InterfaceAddressLends == [
  copy |-> {"ipv4_address_value", "ipv4_address_prefix"},
  present |-> {"ipv6_address_address", "ipv6_address_prefix"}]
InterfaceAddressCopies == [
  asks |-> {"ipv4_address_value", "ipv4_address_prefix"},
  gates |-> {"ipv6_address_address", "ipv6_address_prefix"}]

LinkRouteHolds == [Option |->
  {"ipv4_destination", "ipv4_source", "ipv6_destination", "ipv6_source"}]
LinkRouteLends == [copy |-> {"ipv4_destination", "ipv4_source"},
  present |-> {"ipv6_destination", "ipv6_source"}]
LinkRouteCopies == [asks |-> {"ipv4_destination", "ipv4_source"},
  gates |-> {"ipv6_destination", "ipv6_source"}]

DefaultRouteHolds == [Option |-> {"ipv4_gateway", "ipv6_gateway"}]
DefaultRouteLends == [copy |-> {"ipv4_gateway"}, present |-> {"ipv6_gateway"}]
DefaultRouteCopies == [asks |-> {"ipv4_gateway"}, gates |-> {"ipv6_gateway"}]

NATInterfaceHolds == [T |-> {"ipv4_address_value", "ipv4_prefix", "mtu"},
  Option |-> {"ipv4_gateway", "ipv6_address", "ipv6_prefix", "ipv6_gateway",
              "mac_address"}]
NATInterfaceLends == [
  copy |-> {"ipv4_address_value", "ipv4_prefix", "ipv4_gateway",
           "mac_address", "mtu"},
  present |-> {"ipv6_address", "ipv6_prefix", "ipv6_gateway"}]
NATInterfaceCopies == [
  asks |-> {"ipv4_address_value", "ipv4_prefix", "ipv4_gateway",
           "mac_address", "mtu"},
  gates |-> {"ipv6_address", "ipv6_prefix", "ipv6_gateway"}]

\* The interfaces of a container's, a pod's and a machine's configuration.
InterfacesHolds == [VecKind |-> {"interfaces"}]
InterfacesLends == [list_kind |-> {"interfaces"}]
InterfacesCopies == [lists_switches |-> {"interfaces"}]

DNSHolds == [Option |-> {"domain"},
  Vec |-> {"nameservers", "search_domains", "options"}]
DNSLends == [optional_str |-> {"domain"},
  list |-> {"nameservers", "search_domains", "options"}]
DNSCopies == [asks |-> {"domain"},
  lists |-> {"nameservers", "search_domains", "options"}]

HostsEntryHolds == [T |-> {"ip_address"}, Option |-> {"comment"},
  Vec |-> {"hostnames"}]
HostsEntryLends == [str |-> {"ip_address"}, optional_str |-> {"comment"},
  list |-> {"hostnames"}]
HostsEntryCopies == [asks |-> {"ip_address", "comment"},
  lists |-> {"hostnames"}]

HostsHolds == [Option |-> {"comment"}, Vec |-> {"entries"}]
HostsLends == [optional_str |-> {"comment"}, list |-> {"entries"}]
HostsCopies == [asks |-> {"comment"}, lists |-> {"entries"}]

-----------------------------------------------------------------------------
(* Containers, pods and virtual machines.  The interfaces of each are      *)
(* Interfaces, below, and a mount's runtime options are in Configurations. *)

ContainerMountHolds == [T |-> {"type", "source", "destination"},
  Vec |-> {"options"}]
ContainerMountLends == [str |-> {"type", "source", "destination"},
  list |-> {"options"}]
ContainerMountCopies == [asks |-> {"type", "source", "destination"},
  lists |-> {"options"}]

ProcessCapabilitiesHolds == [Vec |-> CapabilitySets]
ProcessCapabilitiesLends == [list |-> CapabilitySets]
ProcessCapabilitiesCopies == [lists |-> CapabilitySets]

LinuxProcessConfigurationHolds == [
  T |-> {"working_directory", "user", "no_new_privileges", "capabilities",
         "terminal"},
  Option |-> {"stdin", "stdout", "stderr"},
  Vec |-> {"arguments", "environment_variables", "rlimits"}]
LinuxProcessConfigurationLends == [str |-> {"working_directory"},
  borrow |-> {"user", "capabilities"},
  copy |-> {"no_new_privileges", "terminal", "stdin", "stdout", "stderr"},
  list |-> {"arguments", "environment_variables", "rlimits"}]
LinuxProcessConfigurationCopies == [
  asks |-> {"working_directory", "user", "no_new_privileges", "capabilities",
            "terminal", "stdin", "stdout", "stderr"},
  lists |-> {"arguments", "environment_variables", "rlimits"}]

LinuxContainerConfigurationHolds == [
  T |-> {"process", "cpus", "memory_in_bytes", "virtualization", "use_init"},
  Option |-> {"hostname", "dns", "hosts", "boot_log", "oci_runtime_path"},
  Vec |-> {"sockets", "mounts", "masked_paths", "readonly_paths"},
  Map |-> {"sysctl", "unified"}, Kind |-> {"seccomp_profile"}]
LinuxContainerConfigurationLends == [borrow |-> {"process"},
  copy |-> {"cpus", "memory_in_bytes", "virtualization", "use_init"},
  optional_str |-> {"hostname", "oci_runtime_path"},
  present |-> {"dns", "hosts", "boot_log"},
  list |-> {"sockets", "mounts", "masked_paths", "readonly_paths"},
  map |-> {"sysctl", "unified"}, kind |-> {"seccomp_profile"}]
LinuxContainerConfigurationCopies == [
  asks |-> {"process", "cpus", "memory_in_bytes", "hostname",
            "virtualization", "oci_runtime_path", "use_init"},
  gates |-> {"dns", "hosts", "boot_log"},
  lists |-> {"sockets", "mounts", "masked_paths", "readonly_paths"},
  maps |-> {"sysctl", "unified"}, switches |-> {"seccomp_profile"}]

PodConfigurationHolds == [T |-> {"virtualization", "share_process_namespace"},
  Option |-> {"boot_log", "hostname", "dns", "hosts", "oci_runtime_path"},
  Vec |-> {"volumes"}, Kind |-> {"seccomp_profile"}]
PodConfigurationLends == [copy |-> {"virtualization", "share_process_namespace"},
  present |-> {"boot_log", "dns", "hosts"},
  optional_str |-> {"hostname", "oci_runtime_path"},
  list |-> {"volumes"}, kind |-> {"seccomp_profile"}]
PodConfigurationCopies == [
  asks |-> {"virtualization", "share_process_namespace", "hostname",
            "oci_runtime_path"},
  gates |-> {"boot_log", "dns", "hosts"},
  lists |-> {"volumes"}, switches |-> {"seccomp_profile"}]

PodContainerConfigurationHolds == [
  T |-> {"process", "cpus", "memory_in_bytes", "use_init"},
  Option |-> {"hostname", "dns", "hosts"},
  Vec |-> {"sockets", "mounts", "masked_paths", "readonly_paths"},
  Map |-> {"sysctl", "unified"}, OptionKind |-> {"seccomp_profile"}]
PodContainerConfigurationLends == [borrow |-> {"process"},
  copy |-> {"cpus", "memory_in_bytes", "use_init"},
  optional_str |-> {"hostname"}, present |-> {"dns", "hosts"},
  list |-> {"sockets", "mounts", "masked_paths", "readonly_paths"},
  map |-> {"sysctl", "unified"}, optional_kind |-> {"seccomp_profile"}]
PodContainerConfigurationCopies == [
  asks |-> {"process", "cpus", "memory_in_bytes", "hostname", "use_init"},
  gates |-> {"dns", "hosts"},
  lists |-> {"sockets", "mounts", "masked_paths", "readonly_paths"},
  maps |-> {"sysctl", "unified"}, gates_switches |-> {"seccomp_profile"}]

PodVolumeHolds == [T |-> {"name", "format"}, Kind |-> {"source"}]
PodVolumeLends == [str |-> {"name", "format"}, kind |-> {"source"}]
PodVolumeCopies == [asks |-> {"name", "format"}, switches |-> {"source"}]

BootLogHolds == [Kind |-> {"base"}]
BootLogLends == [kind |-> {"base"}]
BootLogCopies == [switches |-> {"base"}]

\* The mounts of an id are a list of their own, within the value of a map.
VMConfigurationHolds == [
  T |-> {"cpus", "memory_in_bytes", "nested_virtualization"},
  Option |-> {"boot_log"}, Map |-> {"mounts_by_id"}]
VMConfigurationLends == [
  copy |-> {"cpus", "memory_in_bytes", "nested_virtualization"},
  present |-> {"boot_log"}, map |-> {"mounts_by_id"}]
VMConfigurationCopies == [
  asks |-> {"cpus", "memory_in_bytes", "nested_virtualization"},
  gates |-> {"boot_log"}, maps |-> {"mounts_by_id"}]

AttachedFilesystemHolds == [T |-> {"type", "source", "destination"},
  Vec |-> {"options"}]
AttachedFilesystemLends == [str |-> {"type", "source", "destination"},
  list |-> {"options"}]
AttachedFilesystemCopies == [asks |-> {"type", "source", "destination"},
  lists |-> {"options"}]

\* A path that is not UTF-8 makes the call fail, as Outcomes has it.
KernelHolds == [T |-> {"path", "platform"}, Vec |-> {"kernel_args", "init_args"}]
KernelLends == [str |-> {"path"}, borrow |-> {"platform"},
  list |-> {"kernel_args", "init_args"}]
KernelCopies == [asks |-> {"path", "platform"},
  lists |-> {"kernel_args", "init_args"}]

BinfmtEntryHolds == [T |-> {"name", "type", "offset", "magic", "mask", "flags"}]
BinfmtEntryLends == [str |-> {"name", "type", "offset", "magic", "mask", "flags"}]
BinfmtEntryCopies == [
  asks |-> {"name", "type", "offset", "magic", "mask", "flags"}]

-----------------------------------------------------------------------------
(* All of them, by type.                                                   *)

Holds == [Spec |-> SpecHolds, Hook |-> HookHolds, Hooks |-> HooksHolds,
  Linux |-> LinuxHolds, LinuxIDMapping |-> LinuxIDMappingHolds,
  LinuxDevice |-> LinuxDeviceHolds, Mount |-> MountHolds,
  Process |-> ProcessHolds, User |-> UserHolds,
  LinuxCapabilities |-> LinuxCapabilitiesHolds,
  LinuxResources |-> LinuxResourcesHolds, LinuxMemory |-> LinuxMemoryHolds,
  LinuxCPU |-> LinuxCPUHolds, LinuxBlockIO |-> LinuxBlockIOHolds,
  LinuxDeviceCgroup |-> LinuxDeviceCgroupHolds,
  LinuxSeccomp |-> LinuxSeccompHolds, LinuxSyscall |-> LinuxSyscallHolds,
  Platform |-> PlatformHolds, Descriptor |-> DescriptorHolds,
  Index |-> IndexHolds, ImageConfig |-> ImageConfigHolds,
  Description |-> DescriptionHolds, EXT4Unpacker |-> EXT4UnpackerHolds,
  FormatterOptions |-> FormatterOptionsHolds,
  ArchiveWriterConfiguration |-> ArchiveWriterConfigurationHolds,
  WriteEntry |-> WriteEntryHolds, CreateOptions |-> CreateOptionsHolds,
  IPv6Address |-> IPv6AddressHolds,
  IPAddress |-> IPAddressHolds, InterfaceAddress |-> InterfaceAddressHolds,
  LinkRoute |-> LinkRouteHolds, DefaultRoute |-> DefaultRouteHolds,
  NATInterface |-> NATInterfaceHolds, Interfaces |-> InterfacesHolds,
  DNS |-> DNSHolds, HostsEntry |-> HostsEntryHolds, Hosts |-> HostsHolds,
  ContainerMount |-> ContainerMountHolds,
  ProcessCapabilities |-> ProcessCapabilitiesHolds,
  LinuxProcessConfiguration |-> LinuxProcessConfigurationHolds,
  LinuxContainerConfiguration |-> LinuxContainerConfigurationHolds,
  PodConfiguration |-> PodConfigurationHolds,
  PodContainerConfiguration |-> PodContainerConfigurationHolds,
  PodVolume |-> PodVolumeHolds,
  BootLog |-> BootLogHolds,
  VMConfiguration |-> VMConfigurationHolds,
  AttachedFilesystem |-> AttachedFilesystemHolds,
  Kernel |-> KernelHolds,
  BinfmtEntry |-> BinfmtEntryHolds]

Lends == [Spec |-> SpecLends, Hook |-> HookLends, Hooks |-> HooksLends,
  Linux |-> LinuxLends, LinuxIDMapping |-> LinuxIDMappingLends,
  LinuxDevice |-> LinuxDeviceLends, Mount |-> MountLends,
  Process |-> ProcessLends, User |-> UserLends,
  LinuxCapabilities |-> LinuxCapabilitiesLends,
  LinuxResources |-> LinuxResourcesLends, LinuxMemory |-> LinuxMemoryLends,
  LinuxCPU |-> LinuxCPULends, LinuxBlockIO |-> LinuxBlockIOLends,
  LinuxDeviceCgroup |-> LinuxDeviceCgroupLends,
  LinuxSeccomp |-> LinuxSeccompLends, LinuxSyscall |-> LinuxSyscallLends,
  Platform |-> PlatformLends, Descriptor |-> DescriptorLends,
  Index |-> IndexLends, ImageConfig |-> ImageConfigLends,
  Description |-> DescriptionLends, EXT4Unpacker |-> EXT4UnpackerLends,
  FormatterOptions |-> FormatterOptionsLends,
  ArchiveWriterConfiguration |-> ArchiveWriterConfigurationLends,
  WriteEntry |-> WriteEntryLends, CreateOptions |-> CreateOptionsLends,
  IPv6Address |-> IPv6AddressLends,
  IPAddress |-> IPAddressLends, InterfaceAddress |-> InterfaceAddressLends,
  LinkRoute |-> LinkRouteLends, DefaultRoute |-> DefaultRouteLends,
  NATInterface |-> NATInterfaceLends, Interfaces |-> InterfacesLends,
  DNS |-> DNSLends, HostsEntry |-> HostsEntryLends, Hosts |-> HostsLends,
  ContainerMount |-> ContainerMountLends,
  ProcessCapabilities |-> ProcessCapabilitiesLends,
  LinuxProcessConfiguration |-> LinuxProcessConfigurationLends,
  LinuxContainerConfiguration |-> LinuxContainerConfigurationLends,
  PodConfiguration |-> PodConfigurationLends,
  PodContainerConfiguration |-> PodContainerConfigurationLends,
  PodVolume |-> PodVolumeLends,
  BootLog |-> BootLogLends,
  VMConfiguration |-> VMConfigurationLends,
  AttachedFilesystem |-> AttachedFilesystemLends,
  Kernel |-> KernelLends,
  BinfmtEntry |-> BinfmtEntryLends]

Copies == [Spec |-> SpecCopies, Hook |-> HookCopies, Hooks |-> HooksCopies,
  Linux |-> LinuxCopies, LinuxIDMapping |-> LinuxIDMappingCopies,
  LinuxDevice |-> LinuxDeviceCopies, Mount |-> MountCopies,
  Process |-> ProcessCopies, User |-> UserCopies,
  LinuxCapabilities |-> LinuxCapabilitiesCopies,
  LinuxResources |-> LinuxResourcesCopies, LinuxMemory |-> LinuxMemoryCopies,
  LinuxCPU |-> LinuxCPUCopies, LinuxBlockIO |-> LinuxBlockIOCopies,
  LinuxDeviceCgroup |-> LinuxDeviceCgroupCopies,
  LinuxSeccomp |-> LinuxSeccompCopies, LinuxSyscall |-> LinuxSyscallCopies,
  Platform |-> PlatformCopies, Descriptor |-> DescriptorCopies,
  Index |-> IndexCopies, ImageConfig |-> ImageConfigCopies,
  Description |-> DescriptionCopies, EXT4Unpacker |-> EXT4UnpackerCopies,
  FormatterOptions |-> FormatterOptionsCopies,
  ArchiveWriterConfiguration |-> ArchiveWriterConfigurationCopies,
  WriteEntry |-> WriteEntryCopies, CreateOptions |-> CreateOptionsCopies,
  IPv6Address |-> IPv6AddressCopies,
  IPAddress |-> IPAddressCopies, InterfaceAddress |-> InterfaceAddressCopies,
  LinkRoute |-> LinkRouteCopies, DefaultRoute |-> DefaultRouteCopies,
  NATInterface |-> NATInterfaceCopies, Interfaces |-> InterfacesCopies,
  DNS |-> DNSCopies, HostsEntry |-> HostsEntryCopies, Hosts |-> HostsCopies,
  ContainerMount |-> ContainerMountCopies,
  ProcessCapabilities |-> ProcessCapabilitiesCopies,
  LinuxProcessConfiguration |-> LinuxProcessConfigurationCopies,
  LinuxContainerConfiguration |-> LinuxContainerConfigurationCopies,
  PodConfiguration |-> PodConfigurationCopies,
  PodContainerConfiguration |-> PodContainerConfigurationCopies,
  PodVolume |-> PodVolumeCopies,
  BootLog |-> BootLogCopies,
  VMConfiguration |-> VMConfigurationCopies,
  AttachedFilesystem |-> AttachedFilesystemCopies,
  Kernel |-> KernelCopies,
  BinfmtEntry |-> BinfmtEntryCopies]

=============================================================================
