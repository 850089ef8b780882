------------------------------ MODULE StandIns ------------------------------
(****************************************************************************)
(* The stand-ins for Swift on every platform but macOS, as a table for      *)
(* Outcomes: the handles that each call takes, its own object among them.   *)
(* A free function that takes none can be called there, and always fails.   *)
(* One that takes an uninhabited handle compiles and never runs.            *)
(*                                                                          *)
(* One definition per file of src/platform/unsupported.                     *)
(****************************************************************************)
LOCAL INSTANCE TLC

\* What a file's `failing!`, or a handle's `uninhabited!`, declares.
LOCAL Free(calls) == [c \in calls |-> {}]
LOCAL Methods(handle, calls) == [c \in calls |-> {handle}]

\* The only handle anything makes on another platform: a `Network?` that is
\* nil.
InhabitedHandles == {"CzNetwork"}

-----------------------------------------------------------------------------
(* Images and content.                                                      *)

ImageStoreStandIns ==
  Free({"openImageStore", "defaultImageStore"})
    @@ Methods("CzLocalContentStore", {"imageStore"})
    @@ Methods("CzImageStore", {
         "get", "getOrNil", "list", "delete", "tag", "pull", "platforms", "push", "pushAll",
         "getInitImage", "save", "cleanUpOrphanedBlobs", "calculateOrphanedBlobsSize", "create",
         "load", "createInitImage", "createKernelImage"})
    @@ Methods("CzImage", {
         "descriptor", "index", "manifest", "descriptorFor", "config", "referencedDigests", "getContent"})
    @@ Methods("CzKernelImage", {"kernel"})
    @@ Methods("CzInitImage", {"initBlock"})

LocalContentStoreStandIns ==
  Free({"openLocalContentStore", "openLocalContent"})
    @@ Methods("CzLocalContentStore", {
         "get", "newIngestSession", "completeIngestSession", "cancelIngestSession", "deleteDigests",
         "deleteKeeping", "totalAllocatedSize", "ingest"})
    @@ Methods("CzContent", {"digest", "size", "data", "dataRange"})

ContentWriterStandIns ==
  Free({"openContentWriter", "copyContent"}) @@ Methods("CzContentWriter", {"write", "create"})

ReferenceStandIns ==
  Free({"newReference", "parseReference", "referenceWithName", "referenceResolveDomain", "parseDigest",
        "parseDigestPathComponent", "digestIsValid", "digestDescription", "digestPath"})
    @@ Methods("CzReference", {"withTag", "withDigest"})

ImageModelStandIns ==
  Free({"currentPlatform", "parsePlatform", "platformDescription", "platformEquals", "platformMatches",
        "indexRunnablePlatforms"})

AuthenticationStandIns ==
  Free({"basicAuthentication", "noAuthentication", "keychainHelperLookup", "keychainHelperList",
        "keychainHelperDelete", "keychainHelperSave"})
    @@ Methods("CzAuthentication", {"token"})

RegistryClientStandIns ==
  Methods("CzAuthentication", {"newRegistryClient", "registryClientWithHost"})
    @@ Methods("CzRegistryClient", {"ping", "resolve", "fetchData", "fetchBlob", "catalog", "referrers"})

-----------------------------------------------------------------------------
(* Archives and filesystems.                                                *)

ArchiveStandIns ==
  Free({"xattrFormatDescription", "newWriteEntry", "newArchiveWriter", "archiveWriterWithFile",
        "openArchiveReader", "archiveReaderWithFormat", "archiveReaderWithFileHandle",
        "archiveReaderWithBundle"})
    @@ Methods("CzWriteEntry", {"xattrs"})
    @@ Methods("CzArchiveWriter", {
         "open", "openWithFileDescriptor", "finishEncoding", "writeEntry", "archiveDirectory", "archive"})
    @@ Methods("CzArchiveWriterTransaction", {"writeHeader", "writeChunk", "finish"})
    @@ Methods("CzArchiveReader", {"throwIfStreamFailed", "extractContents", "extractFile"})
    @@ Methods("CzArchiveIterator", {"next"})
    @@ Methods("CzStreamingIterator", {"nextStreaming"})
    @@ Methods("CzArchiveEntryReader", {"read"})

\* With the unpacking of an archive, which archive.rs declares.
Ext4StandIns ==
  Free({"openExt4Reader", "readInlineExtendedAttributes", "readBlockExtendedAttributes",
        "readFileXattrs", "rootInode", "compressExtendedAttributeName",
        "decompressExtendedAttributeName", "newExt4Formatter", "scanArchiveHeaders", "unpackExt4Archive"})
    @@ Methods("CzImage", {"unpackExt4"})
    @@ Methods("CzExt4Reader", {"stat", "listDirectory", "readFile", "export"})
    @@ Methods("CzExt4Formatter", {"link", "unlink", "create", "close", "unpack", "unpackReader"})

-----------------------------------------------------------------------------
(* The host.                                                                *)

OSStandIns ==
  Free({"newTerminal", "currentTerminal", "createTerminal", "parseCapabilityName", "parseCapabilitySet",
        "sysctlByName", "newProcNetSnmp", "readProcNetSnmp", "fileInfo"})
    @@ Methods("CzTerminal", {
         "terminalSize", "terminalWrite", "resizeFrom", "resizeSize", "resize", "setraw", "enableEcho",
         "disableEcho", "terminalClose", "terminalReset"})

KeychainStandIns == Free({"get", "list", "delete", "save", "exists"})

IOStandIns ==
  Free({"newReadStream", "readStreamWithURL", "readStreamWithData"})
    @@ Methods("CzReadStream", {"reset"})
    @@ Methods("CzDataStream", {"nextChunk"})

FileDescriptorOpsStandIns ==
  Free({"unlink", "entryType", "statusOf", "status", "statusRelativePath", "readSymlink",
        "getCanonicalPath", "makeDirectory", "makeSymlink", "unlinkRecursive", "enumerate", "mkdir",
        "openDirectory", "openFile", "openFileRelativePath", "createFile"})

VolumeSubpathStandIns == Free({"isSubpathMount", "extract"})

-----------------------------------------------------------------------------
(* Containers and what they run in.                                         *)

LinuxContainerStandIns ==
  Methods("CzVirtualMachineManager", {"linuxContainer"})
    @@ Methods("CzLinuxContainer", {
         "create", "rootfs", "writableLayer", "wait", "exec", "execWith", "dialVsock", "statistics",
         "virtualMachineInstance", "copyIn", "copyOut", "kill", "resize", "start", "stop",
         "closeStdin", "filesystemOperation"})

LinuxProcessStandIns ==
  Methods("CzLinuxProcess", {"delete", "wait", "kill", "resize", "start", "closeStdin"})

LinuxPodStandIns ==
  Methods("CzVirtualMachineManager", {"linuxPod"})
    @@ Methods("CzLinuxPod", {
         "create", "dialVsock", "statistics", "virtualMachineInstance", "waitContainer",
         "execInContainer", "stop", "filesystemOperation", "addContainer", "startContainer",
         "stopContainer", "killContainer", "resizeContainer", "closeContainerStdin"})
    @@ [relayUnixSocket |-> {"CzLinuxPod", "CzUnixSocketConfiguration"}]

ContainerManagerStandIns ==
  Methods("CzNetwork", {"containerManagerAtRoot", "containerManagerAtRootWithInitfsReference"})
    @@ [containerManagerWithVmm |-> {"CzVirtualMachineManager", "CzNetwork"},
        containerManager |-> {"CzImageStore", "CzNetwork"},
        containerManagerWithInitfsReference |-> {"CzImageStore", "CzNetwork"}]
    @@ Methods("CzContainerManager", {"createFromReference", "create", "createWithRootfs", "releaseNetwork", "delete"})

\* With an instance's agent, which is Vminitd.swift's.
VirtualMachineStandIns ==
  Free({"virtualMachineManager", "installRosetta"})
    @@ Methods("CzVirtualMachineManager", {"create"})
    @@ Methods("CzVirtualMachineInstance", {
         "mounts", "start", "stop", "pause", "resume", "dial", "listen", "hotplug", "registerMounts",
         "releaseHotplug", "hotplugVirtioFS", "releaseVirtioFS", "dialAgent"})

VminitdStandIns ==
  Methods("CzVminitd", {
    "standardSetup", "close", "filesystemOperation", "getenv", "setenv", "mount", "umount", "mkdir",
    "kill", "sync", "createProcess", "startProcess", "signalProcess", "resizeProcess", "waitProcess",
    "deleteProcess", "closeProcessStdin", "up", "down", "addressAdd", "routeAddLink",
    "routeAddDefault", "configureDNS", "configureHosts", "containerStatistics", "setupEmulator",
    "setTime", "sysctl", "stat", "enableRosetta"})
    @@ [relaySocket |-> {"CzVminitd", "CzUnixSocketConfiguration"},
        stopSocketRelay |-> {"CzVminitd", "CzUnixSocketConfiguration"}]

UnixSocketConfigurationStandIns == Free({"unixSocketConfiguration"})

VmnetNetworkStandIns ==
  Free({"vmnetNetwork"})
    @@ Methods("CzVmnetNetwork", {
         "subnet", "prefixV6", "ipv4Gateway", "ipv6Gateway", "createInterface",
         "createInterfaceWithMtu", "createInterfaceWithoutGateway", "releaseInterface"})

VmnetInterfaceStandIns ==
  Methods("CzVmnetInterface", {"ipv4Gateway", "ipv6Gateway", "ipv4Address", "ipv6Address", "macAddress"})

-----------------------------------------------------------------------------
(* Values.                                                                  *)

SpecStandIns ==
  Free({"processFromImageConfig", "processDescription", "hookDescription", "decodeLinuxSeccomp",
        "defaultSeccompProfile", "currentArch", "currentVerifiedArch", "currentRuntimeSpecVersion",
        "linuxRLimitToOCI", "linuxCapabilitiesToOCI", "systemPlatformOCIPlatform", "createBundle",
        "createBundleFromData", "loadBundle", "bundleConfigPath", "bundleRootfsPath", "deleteBundle",
        "bundleLoadConfig"})

\* The calls of values.rs on a process's configuration and on a disk.
ConfigurationStandIns ==
  Free({"processConfigurationFromImageConfig", "chDiskConfig"}) @@ Methods("CzTerminal", {"setTerminalIO"})

ValuesStandIns ==
  Free({"addDebug", "addPanic", "setAgentLogLevel", "cloneMount", "tagHash", "validateDNS", "resolvConf",
        "hostsFile", "rendered", "namedHostsEntry", "newExitStatus", "parseLinuxRLimitKind"})

SignalStandIns ==
  Free({"platform", "parseSignal", "parseSignalFrom", "linux", "platformName", "linuxSignal"})

ExtrasStandIns == Free({"event", "proxyFromEnvironment"})

LOCAL AddressTests == {"isUnspecified", "isLoopback", "isMulticast"}
LOCAL Ranges == {"parse", "description", "new", "contains", "fromRange", "lower", "upper"}

AddressesStandIns == [
  IPv4Address |-> Free(AddressTests \cup {
    "bytes", "fromBytes", "parse", "description", "isLinkLocal", "isBroadcast", "lessThan"}),
  IPv6Address |-> Free(AddressTests \cup {
    "bytes", "fromBytes", "parse", "description", "unspecified", "loopback", "isLinkLocal",
    "isUniqueLocal", "isGlobalUnicast", "isDocumentation", "lessThan"}),
  IPAddress |-> Free(AddressTests \cup {"parse", "description", "ipv4", "ipv6", "isV4", "isV6"}),
  MACAddress |-> Free({"bytes", "ipv6Address", "fromBytes", "parse", "description", "new",
    "isMulticast", "isLocallyAdministered", "lessThan"}),
  Prefix |-> Free({"description", "ipv4", "ipv6", "new", "suffixMask32", "prefixMask32",
    "suffixMask128", "prefixMask128"}),
  CIDRv4 |-> Free(Ranges \cup {"gateway"}),
  CIDRv6 |-> Free(Ranges \cup {"gateway"}),
  CIDR |-> Free(Ranges \cup {"prefix", "address"})]

-----------------------------------------------------------------------------

StandInHandles == AddressesStandIns @@ [
  Images |-> ImageStoreStandIns,
  Content |-> LocalContentStoreStandIns @@ ContentWriterStandIns,
  Reference |-> ReferenceStandIns,
  Platform |-> ImageModelStandIns,
  Registry |-> AuthenticationStandIns @@ RegistryClientStandIns,
  Archive |-> ArchiveStandIns,
  Ext4 |-> Ext4StandIns,
  Host |-> OSStandIns,
  Keychain |-> KeychainStandIns,
  Streams |-> IOStandIns,
  FdOps |-> FileDescriptorOpsStandIns,
  Subpath |-> VolumeSubpathStandIns,
  LinuxContainer |-> LinuxContainerStandIns,
  LinuxProcess |-> LinuxProcessStandIns,
  LinuxPod |-> LinuxPodStandIns,
  ContainerManager |-> ContainerManagerStandIns,
  VirtualMachine |-> VirtualMachineStandIns,
  Vminitd |-> VminitdStandIns,
  UnixSocket |-> UnixSocketConfigurationStandIns,
  VmnetNetwork |-> VmnetNetworkStandIns,
  VmnetInterface |-> VmnetInterfaceStandIns,
  Spec |-> SpecStandIns @@ ConfigurationStandIns,
  Values |-> ValuesStandIns,
  Signal |-> SignalStandIns,
  Extras |-> ExtrasStandIns]
=============================================================================
