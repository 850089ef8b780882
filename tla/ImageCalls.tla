----------------------------- MODULE ImageCalls -----------------------------
(****************************************************************************)
(* The calls on images, their content and the registries they come from, as *)
(* tables for Outcomes: what each Swift closure gives, and, translated from *)
(* the other language, how each Rust method reads it.                       *)
(****************************************************************************)
LOCAL INSTANCE Sequences
LOCAL INSTANCE TLC

\* As in Outcomes.
LOCAL Absent == <<"Absent">>
LOCAL Nil == <<"nil">>
LOCAL Try(types) == types \cup {<<"thrown">>}
LOCAL Maybe(types) == types \cup {Absent}
LOCAL ListOf(type) == <<"list">> \o type

\* A Rust method that asks `error` first, and then reads.
LOCAL Asks(reading) == <<"error">> \o reading

-----------------------------------------------------------------------------
(* The stores.                                                              *)

\* Opening an image store, and what it returns until `push`.
ImageStoreReturns == [
  openImageStore |-> Try({<<"CzImageStore">>}),
  defaultImageStore |-> {<<"CzImageStore">>},
  imageStore |-> Try({<<"CzImageStore">>}),
  get |-> Try({<<"CzImage">>}),
  getOrNil |-> Try(Maybe({<<"CzImage">>})),
  list |-> Try({<<"CzImages">>}),
  delete |-> Try({<<"Void">>}),
  tag |-> Try({<<"CzImage">>}),
  pull |-> Try({<<"CzImage">>}),
  platforms |-> Try({ListOf(<<"Platform">>)}),
  push |-> Try({<<"Void">>}),
  pushAll |-> Try({<<"Void">>})]

\* The images' side of a clean-up that gives its tuple as it got it.
ImageStoreMoreReturnsLabeled == [
  getInitImage |-> Try({<<"CzInitImage">>}), save |-> Try({<<"Void">>}),
  cleanUpOrphanedBlobs |-> Try({<<"labeled deleted and freed">>}),
  calculateOrphanedBlobsSize |-> Try({<<"UInt64">>}), create |-> Try({<<"CzImage">>}),
  load |-> Try({<<"CzImages">>}), createInitImage |-> Try({<<"CzInitImage">>}),
  createKernelImage |-> Try({<<"CzKernelImage">>})]

\* The rest of it.  `cleanUpOrphanedBlobs` is rebuilt without its labels: a
\* tuple with labels is another type.
ImageStoreMoreReturns == [
  getInitImage |-> Try({<<"CzInitImage">>}),
  save |-> Try({<<"Void">>}),
  cleanUpOrphanedBlobs |-> Try({<<"deleted and freed">>}),
  calculateOrphanedBlobsSize |-> Try({<<"UInt64">>}),
  create |-> Try({<<"CzImage">>}),
  load |-> Try({<<"CzImages">>}),
  createInitImage |-> Try({<<"CzInitImage">>}),
  createKernelImage |-> Try({<<"CzKernelImage">>})]

ImageReturns == [
  descriptor |-> {<<"Descriptor">>},
  index |-> Try({<<"Index">>}),
  manifest |-> Try({<<"Manifest">>}),
  descriptorFor |-> Try({<<"Descriptor">>}),
  config |-> Try({<<"OCIImage">>}),
  referencedDigests |-> Try({ListOf(<<"Text">>)}),
  getContent |-> Try({<<"CzContent">>}),
  kernel |-> Try({<<"Kernel">>}),
  initBlock |-> Try({<<"Mount">>})]

ImageStoreReads == [
  openImageStore |-> {Asks(<<"imageStore">>)},
  defaultImageStore |-> {Asks(<<"imageStore">>)},
  imageStore |-> {Asks(<<"imageStore">>)},
  get |-> {Asks(<<"image">>)},
  getOrNil |-> {Asks(<<"optional", "image">>)},
  list |-> {Asks(<<"images">>)},
  delete |-> {Asks(<<>>)},
  tag |-> {Asks(<<"image">>)},
  pull |-> {Asks(<<"image">>)},
  platforms |-> {Asks(<<"list", "platform">>)},
  push |-> {Asks(<<>>)}]

ImageStoreMoreReads == [
  pushAll |-> {Asks(<<>>)},
  getInitImage |-> {Asks(<<"initImage">>)},
  save |-> {Asks(<<>>)},
  create |-> {Asks(<<"image">>)},
  load |-> {Asks(<<"images">>)},
  cleanUpOrphanedBlobs |-> {Asks(<<"strings">>), Asks(<<"number">>)},
  calculateOrphanedBlobsSize |-> {Asks(<<"number">>)}]

\* `Image.descriptor` cannot throw, and Rust does not ask whether it did.
ImageReads == [
  descriptor |-> {<<"descriptor">>},
  index |-> {Asks(<<"index">>)},
  manifest |-> {Asks(<<"manifest">>)},
  descriptorFor |-> {Asks(<<"descriptor">>)},
  config |-> {Asks(<<"ociImage">>)},
  referencedDigests |-> {Asks(<<"strings">>)},
  getContent |-> {Asks(<<"content">>)}]

InitImageReads == [
  createInitImage |-> {Asks(<<"initImage">>)},
  initBlock |-> {Asks(<<"mount">>)}]

KernelImageReads == [
  createKernelImage |-> {Asks(<<"kernelImage">>)},
  kernel |-> {Asks(<<"kernel">>)}]

\* The arguments of these that may not fit Swift.
ImageStoreTakes == [
  openImageStore |-> {"path"}, imageStore |-> {"path"}, pull |-> {"count"}, pushAll |-> {"count"},
  save |-> {"path"}, load |-> {"path"}, createInitImage |-> {"path"},
  createKernelImage |-> {"lent path"}, initBlock |-> {"path"}]

-----------------------------------------------------------------------------
(* Content.                                                                 *)

\* A content store's session is a tuple with labels, which only its own two
\* getters take; what its deletes return is the tuple that they share with
\* the image store.  A get wraps the store's nil in a handle.
ContentStoreReturns == [
  openLocalContentStore |-> Try({<<"CzLocalContentStore">>}),
  get |-> Try({<<"CzContent">>, <<"CzContent", "nil">>}),
  deleteDigests |-> Try({<<"deleted and freed">>}),
  deleteKeeping |-> Try({<<"deleted and freed">>}),
  newIngestSession |-> Try({<<"id and ingestDir">>}),
  completeIngestSession |-> Try({ListOf(<<"Text">>)}),
  cancelIngestSession |-> Try({<<"Void">>}),
  totalAllocatedSize |-> Try({<<"UInt64">>}),
  ingest |-> Try({ListOf(<<"Text">>)})]

\* Only a range can be missing: Rust holds no handle without a content.
ContentReturns == [
  openLocalContent |-> Try({<<"CzContent">>}),
  digest |-> Try({<<"Text">>}),
  size |-> Try({<<"UInt64">>}),
  data |-> Try({<<"Data">>}),
  dataRange |-> Try({<<"Data">>, Nil})]

ContentWriterReturns == [
  openContentWriter |-> Try({<<"CzContentWriter">>}),
  write |-> Try({<<"Written">>}),
  create |-> Try({<<"Written">>}),
  copyContent |-> Try({<<"Written">>})]

ContentStoreReads == [
  openLocalContentStore |-> {Asks(<<"localContentStore">>)},
  get |-> {Asks(<<"content", "holdsContent">>)},
  deleteDigests |-> {Asks(<<"strings">>), Asks(<<"number">>)},
  deleteKeeping |-> {Asks(<<"strings">>), Asks(<<"number">>)},
  newIngestSession |-> {Asks(<<"ingestSession">>)},
  completeIngestSession |-> {Asks(<<"strings">>)},
  cancelIngestSession |-> {Asks(<<>>)},
  totalAllocatedSize |-> {Asks(<<"number">>)},
  ingest |-> {Asks(<<"strings">>)}]

\* A range read without asking whether the call threw, and one read without
\* asking whether it is there.
ContentReadsUnasked == [
  dataRange |-> {<<"hasBytes", "bytes">>},
  openLocalContent |-> {Asks(<<"content">>)}, digest |-> {Asks(<<"text">>)},
  size |-> {Asks(<<"number">>)}, data |-> {Asks(<<"bytes">>)}]

ContentReadsEmpty == [
  dataRange |-> {Asks(<<"bytes">>)},
  openLocalContent |-> {Asks(<<"content">>)}, digest |-> {Asks(<<"text">>)},
  size |-> {Asks(<<"number">>)}, data |-> {Asks(<<"bytes">>)}]

ContentReads == [
  openLocalContent |-> {Asks(<<"content">>)},
  digest |-> {Asks(<<"text">>)},
  size |-> {Asks(<<"number">>)},
  data |-> {Asks(<<"bytes">>)},
  dataRange |-> {Asks(<<"hasBytes", "bytes">>)}]

ContentWriterReads == [
  openContentWriter |-> {Asks(<<"contentWriter">>)},
  write |-> {Asks(<<"written">>)},
  create |-> {Asks(<<"written">>)},
  copyContent |-> {Asks(<<"written">>)}]

ContentTakes == [
  openLocalContentStore |-> {"path"}, openLocalContent |-> {"path"}, dataRange |-> {"count"},
  openContentWriter |-> {"path"}, create |-> {"path"}, copyContent |-> {"path"}]

-----------------------------------------------------------------------------
(* References, digests, platforms and indexes.                              *)

ReferenceReturns == [
  withTag |-> Try({<<"CzReference">>}),
  withDigest |-> Try({<<"CzReference">>}),
  newReference |-> Try({<<"CzReference">>}),
  parseReference |-> Try({<<"CzReference">>}),
  referenceWithName |-> Try({<<"CzReference">>}),
  referenceResolveDomain |-> {<<"Text">>},
  parseDigest |-> Try({<<"ParsedDigest">>}),
  parseDigestPathComponent |-> Try({<<"ParsedDigest">>}),
  digestIsValid |-> {<<"Bool">>},
  digestDescription |-> Try({<<"Text">>}),
  digestPath |-> Try({<<"Text">>})]

PlatformReturns == [
  currentPlatform |-> {<<"Platform">>},
  parsePlatform |-> Try({<<"Platform">>}),
  platformDescription |-> {<<"Text">>},
  platformEquals |-> {<<"Bool">>},
  platformMatches |-> {<<"Bool">>},
  indexRunnablePlatforms |-> {ListOf(<<"Platform">>)}]

ReferenceReads == [
  newReference |-> {Asks(<<"reference">>)},
  parseReference |-> {Asks(<<"reference">>)},
  referenceWithName |-> {Asks(<<"reference">>)},
  referenceResolveDomain |-> {Asks(<<"text">>)},
  withTag |-> {Asks(<<"reference">>)},
  withDigest |-> {Asks(<<"reference">>)}]

DigestReads == [
  parseDigest |-> {Asks(<<"parsedDigest">>)},
  parseDigestPathComponent |-> {Asks(<<"parsedDigest">>)},
  digestIsValid |-> {Asks(<<"boolean">>)},
  digestDescription |-> {Asks(<<"text">>)},
  digestPath |-> {Asks(<<"text">>)}]

PlatformReads == [
  platformEquals |-> {Asks(<<"boolean">>)},
  currentPlatform |-> {Asks(<<"platform">>)},
  parsePlatform |-> {Asks(<<"platform">>)},
  platformDescription |-> {Asks(<<"text">>)},
  platformMatches |-> {Asks(<<"boolean">>)},
  indexRunnablePlatforms |-> {Asks(<<"list", "platform">>)}]

-----------------------------------------------------------------------------
(* Registries and the keychain.                                             *)

RegistryReturns == [
  newRegistryClient |-> Try({<<"CzRegistryClient">>}),
  registryClientWithHost |-> Try({<<"CzRegistryClient">>}),
  ping |-> Try({<<"Void">>}),
  resolve |-> Try({<<"Descriptor">>}),
  fetchData |-> Try({<<"Data">>}),
  fetchBlob |-> Try({<<"Written">>}),
  catalog |-> Try({ListOf(<<"Text">>)}),
  referrers |-> Try({<<"Index">>})]

AuthenticationReturns == [
  token |-> Try({<<"Text">>}),
  basicAuthentication |-> {<<"CzAuthentication">>},
  noAuthentication |-> {<<"CzAuthentication">>},
  keychainHelperLookup |-> Try({<<"CzAuthentication">>}),
  keychainHelperList |-> Try({ListOf(<<"RegistryInfo">>)}),
  keychainHelperDelete |-> Try({<<"Void">>}),
  keychainHelperSave |-> Try({<<"Void">>})]

RegistryReads == [
  newRegistryClient |-> {Asks(<<"registryClient">>)},
  registryClientWithHost |-> {Asks(<<"registryClient">>)},
  ping |-> {Asks(<<>>)},
  resolve |-> {Asks(<<"descriptor">>)},
  fetchData |-> {Asks(<<"bytes">>)},
  fetchBlob |-> {Asks(<<"written">>)},
  catalog |-> {Asks(<<"strings">>)},
  referrers |-> {Asks(<<"index">>)}]

AuthenticationReads == [
  basicAuthentication |-> {Asks(<<"authentication">>)},
  noAuthentication |-> {Asks(<<"authentication">>)},
  token |-> {Asks(<<"text">>)}]

\* The dates of a registry's entry may be ones Rust cannot hold.
KeychainReads == [
  keychainHelperLookup |-> {Asks(<<"authentication">>)},
  keychainHelperList |-> {Asks(<<"list", "registryInfo", "check">>)},
  keychainHelperDelete |-> {Asks(<<>>)},
  keychainHelperSave |-> {Asks(<<>>)}]

RegistryTakes == [registryClientWithHost |-> {"count"}, fetchBlob |-> {"path"}, digestPath |-> {"path"}]

-----------------------------------------------------------------------------
(* The OCI image values, read field by field.                               *)

OCICasts == [
  platform |-> {<<"Platform">>}, descriptor |-> {<<"Descriptor">>}, index |-> {<<"Index">>},
  manifest |-> {<<"Manifest">>}, imageConfig |-> {<<"ImageConfig">>}, rootfs |-> {<<"Rootfs">>},
  history |-> {<<"History">>}, ociImage |-> {<<"OCIImage">>}]

\* The fields that are outcomes of their own: every list, map, nested value
\* and optional one of those.
OCIParts == [
  platform |-> [osFeatures |-> Maybe({ListOf(<<"Text">>)})],
  descriptor |-> [urls |-> Maybe({ListOf(<<"Text">>)}),
                  annotations |-> Maybe({<<"map", "Text">>}),
                  platform |-> Maybe({<<"Platform">>})],
  index |-> [manifests |-> {ListOf(<<"Descriptor">>)},
             annotations |-> Maybe({<<"map", "Text">>}),
             subject |-> Maybe({<<"Descriptor">>})],
  manifest |-> [config |-> {<<"Descriptor">>},
                layers |-> {ListOf(<<"Descriptor">>)},
                annotations |-> Maybe({<<"map", "Text">>}),
                subject |-> Maybe({<<"Descriptor">>})]]

OCIImageParts == [
  imageConfig |-> [env |-> Maybe({ListOf(<<"Text">>)}),
                   entrypoint |-> Maybe({ListOf(<<"Text">>)}),
                   cmd |-> Maybe({ListOf(<<"Text">>)}),
                   labels |-> Maybe({<<"map", "Text">>})],
  ociImage |-> [osFeatures |-> Maybe({ListOf(<<"Text">>)}),
                config |-> Maybe({<<"ImageConfig">>}),
                rootfs |-> {<<"Rootfs">>},
                history |-> Maybe({ListOf(<<"History">>)})]]

OCIFields == [
  platform |-> [osFeatures |-> <<"optional", "strings">>],
  descriptor |-> [urls |-> <<"optional", "strings">>,
                  annotations |-> <<"optional", "textMap">>,
                  platform |-> <<"optional", "platform">>],
  index |-> [manifests |-> <<"list", "descriptor">>,
             annotations |-> <<"optional", "textMap">>,
             subject |-> <<"optional", "descriptor">>],
  manifest |-> [config |-> <<"descriptor">>,
                layers |-> <<"list", "descriptor">>,
                annotations |-> <<"optional", "textMap">>,
                subject |-> <<"optional", "descriptor">>],
  imageConfig |-> [env |-> <<"optional", "strings">>,
                   entrypoint |-> <<"optional", "strings">>,
                   cmd |-> <<"optional", "strings">>,
                   labels |-> <<"optional", "textMap">>],
  ociImage |-> [osFeatures |-> <<"optional", "strings">>,
                config |-> <<"optional", "imageConfig">>,
                rootfs |-> <<"rootfs">>,
                history |-> <<"optional", "list", "history">>]]

-----------------------------------------------------------------------------
(* The getters that each file adds for its own handles and values.          *)

ImageStoreCasts == [
  imageStore |-> {<<"CzImageStore">>}, image |-> {<<"CzImage">>}, images |-> {<<"CzImages">>},
  initImage |-> {<<"CzInitImage">>}, kernelImage |-> {<<"CzKernelImage">>}, kernel |-> {<<"Kernel">>}]

ContentStoreCasts == [
  localContentStore |-> {<<"CzLocalContentStore">>},
  content |-> {<<"CzContent">>, <<"CzContent", "nil">>},
  ingestSession |-> {<<"id and ingestDir">>}]

ContentWriterCasts == [contentWriter |-> {<<"CzContentWriter">>}, written |-> {<<"Written">>}]

ReferenceCasts == [reference |-> {<<"CzReference">>}, parsedDigest |-> {<<"ParsedDigest">>}]

RegistryCasts == [registryClient |-> {<<"CzRegistryClient">>}]

AuthenticationCasts == [authentication |-> {<<"CzAuthentication">>}, registryInfo |-> {<<"RegistryInfo">>}]

-----------------------------------------------------------------------------

ImageCallsReturns == [
  Images |-> ImageStoreReturns @@ ImageStoreMoreReturns @@ ImageReturns,
  Content |-> ContentStoreReturns @@ ContentReturns @@ ContentWriterReturns,
  Reference |-> ReferenceReturns,
  Platform |-> PlatformReturns,
  Registry |-> RegistryReturns @@ AuthenticationReturns]

ImageCallsReads == [
  Images |-> ImageStoreReads @@ ImageStoreMoreReads @@ ImageReads @@ InitImageReads @@ KernelImageReads,
  Content |-> ContentStoreReads @@ ContentReads @@ ContentWriterReads,
  Reference |-> ReferenceReads @@ DigestReads,
  Platform |-> PlatformReads,
  Registry |-> RegistryReads @@ AuthenticationReads @@ KeychainReads]

ImageCallsTakes == [
  Images |-> ImageStoreTakes, Content |-> ContentTakes, Reference |-> RegistryTakes, Registry |-> RegistryTakes]

ImageCallsCasts ==
  OCICasts @@ ImageStoreCasts @@ ContentStoreCasts @@ ContentWriterCasts @@ ReferenceCasts
    @@ RegistryCasts @@ AuthenticationCasts

ImageCallsParts == OCIParts @@ OCIImageParts
=============================================================================
