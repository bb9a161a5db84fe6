------------------------------- MODULE Profiles -------------------------------
(***************************************************************************)
(* From a name and a schematic to the key of the asset caches: the profile *)
(* of the name is enhanced with what the schematic asks for, which puts    *)
(* paths of the replica's own temporary directory into it; the cleaned     *)
(* profile is the key.  Its YAML form and the hash of that are taken as    *)
(* injective, and the errata the hash adds as functions of the profile.    *)
(***************************************************************************)
EXTENDS ArtifactPaths, Naturals, FiniteSets

CONSTANTS Replicas,
          MaxRestarts   \* bound on the restarts of the replicas

VARIABLES restarts,  \* how many restarts there were
          directory, \* replica |-> its temporary directory, a new one for every process
          published, \* whether the list of extra extensions is published for a version
          listed,    \* replica, version |-> the list of extensions it keeps, if any
          signing,   \* whether the Secure Boot keys are configured
          built      \* the assets that were resolved, with their profiles and keys

vars == <<restarts, directory, published, listed, signing, built>>

Plain == [id |-> "plain", config |-> Unset, args |-> <<>>, meta |-> <<>>, extensions |-> <<>>, overlay |-> Unset,
          enroll |-> Unset, certs |-> FALSE, bootloader |-> Unset, sector |-> 0]

\* Schematics that differ in what each kind of asset takes from them.
Schematics ==
    {Plain,
     [Plain EXCEPT !.id = "extended", !.extensions = <<"i915-ucode">>],
     [Plain EXCEPT !.id = "overlaid", !.overlay = "rpi_generic", !.args = <<"nomodeset">>],
     [Plain EXCEPT !.id = "customized", !.config = "machine", !.meta = <<"uuid">>, !.bootloader = "grub",
                   !.enroll = "force", !.certs = TRUE, !.sector = 4]}

\* The names of the runs: one for every rule of the parser and both Secure Boot cases.
Paths ==
    {Path(<<"kernel", "amd64">>, <<>>), Path(<<"kernel", "x86_64">>, <<>>), Path(<<"cmdline", "metal", "amd64">>, <<>>),
     Path(<<"initramfs", "amd64">>, <<"xz">>), Path(<<"metal", "amd64", "secureboot">>, <<"iso">>),
     Path(<<"metal", "amd64", "uki">>, <<"efi">>), Path(<<"digital", "ocean", "amd64">>, <<"raw", "gz">>),
     Path(<<"installer", "amd64">>, <<"tar">>)}

\* What the registry lists for a version: the extension was renamed, and an extra
\* extension overrides an official one of its name.
Ref(name, digest) == [name |-> name, digest |-> digest]
Official(v) == IF v = "v1.4" THEN {Ref("i915-ucode", "d1")} ELSE {Ref("i915", "d2"), Ref("gvisor", "d3")}
Extra(extra) == IF extra THEN {Ref("i915", "x1")} ELSE {}
FetchList(v, extra) ==
    Extra(extra) \cup {o \in Official(v) : \A x \in Extra(extra) : x.name # o.name}

\* A list is never empty: the versions of the runs have official extensions.
Unlisted == {}
Listing(r, v) == IF listed[r][v] = Unlisted THEN FetchList(v, published) ELSE listed[r][v]

ExtensionNameAlias(name) == IF name = "i915-ucode" THEN "i915" ELSE Unset
\* The extension of a name, or else of its alias: empty if there is none.
FindExtension(available, name) ==
    LET named(n) == {e \in available : e.name = n} IN
    IF named(name) # {} THEN named(name) ELSE named(ExtensionNameAlias(name))

\* The images of the extensions of a schematic.
Digests(s, available) ==
    [i \in DOMAIN s.extensions |-> (CHOOSE e \in FindExtension(available, s.extensions[i]) : TRUE).digest]

\* A path is a name in a directory; the base of it is the name alone.
NoPath == [directory |-> <<>>, name |-> <<>>]
InDirectory(d, name) == [directory |-> d, name |-> name]

\* Mutated form: paths are cleared instead of cut, as those of the Secure Boot keys are.
Base_Cleared(path) == NoPath
Base(path) == [path EXCEPT !.directory = <<>>]

NoOverlay == [name |-> Unset, image |-> NoPath, installer |-> NoPath]

Unenhanced(parsed) ==
    [kind |-> parsed.kind, disk |-> parsed.disk, format |-> parsed.format, platform |-> parsed.platform,
     arch |-> parsed.arch, secureBoot |-> parsed.secureBoot, version |-> Unset, config |-> Unset, args |-> <<>>,
     meta |-> <<>>, enroll |-> Unset, certs |-> FALSE, bootloader |-> Unset, sector |-> 0,
     installer |-> [ref |-> <<>>, path |-> NoPath], extensions |-> <<>>, overlay |-> NoOverlay]

\* Nothing of the schematic but its kernel arguments and META goes into these.
Bare(profile) == profile.kind \in {"cmdline", "kernel"}

ShouldAutoSign(profile, v) ==
    /\ ~profile.secureBoot /\ profile.kind = "installer"
    /\ v \in SupportsUnifiedInstaller /\ v \notin ForcesLockdownConfidentiality

\* Whether the profile asks for what its version or the service cannot do.
Refused(profile, s, v, available) ==
    \/ profile.secureBoot /\ ~signing
    \/ s.overlay # Unset /\ v \notin SupportsOverlay
    \/ /\ ~Bare(profile)
       /\ \/ s.config # Unset /\ v \notin SupportsEmbeddedConfig
          \/ \E i \in DOMAIN s.extensions : FindExtension(available, s.extensions[i]) = {}

\* The list of extensions is read only after the checks that precede it.
ReadsList(profile, s, v) ==
    /\ ~Bare(profile) /\ s.extensions # <<>>
    /\ ~(profile.secureBoot /\ ~signing)
    /\ s.config # Unset => v \in SupportsEmbeddedConfig
    /\ s.overlay # Unset => v \in SupportsOverlay

SecureBootOptions(profile, s) ==
    IF ~profile.secureBoot THEN profile
    ELSE [profile EXCEPT !.certs = s.certs,
                         !.enroll = IF profile.kind \in {"iso", "image"} THEN s.enroll ELSE Unset]

\* The installer a registry request is built from is named by its digest, so that
\* the key is bound to it; that of a plain download by its tag.
InstallerName(v) == IF v \in SupportsUnifiedInstaller THEN "installer-base" ELSE "installer"
BaseInstaller(profile, d, v, byDigest) ==
    IF profile.kind # "installer" THEN profile
    ELSE [profile EXCEPT !.installer = [ref |-> <<InstallerName(v), IF byDigest THEN "digest" ELSE v>>,
                                        path |-> InDirectory(d, <<profile.arch, "installer", v>>)]]

\* The images of the extensions, then the tarball that carries the schematic itself,
\* whose file is named after the schematic and the quirk that its contents depend on.
SystemExtensions(profile, s, d, v, available) ==
    LET image(digest) == InDirectory(d, <<profile.arch, digest>>)
        tarball == InDirectory(d, <<s.id, IF v \in SupportsOverlay THEN "true" ELSE "false">>)
    IN IF Bare(profile) THEN profile
       ELSE [profile EXCEPT !.extensions = [i \in DOMAIN s.extensions |-> image(Digests(s, available)[i])] \o <<tarball>>]

\* The overlay of the build's own architecture and that of the target; the profile
\* the overlay ships is merged, a function of the image.
Overlay(profile, s, d) ==
    IF Bare(profile) \/ s.overlay = Unset THEN profile
    ELSE [profile EXCEPT !.overlay = [name |-> s.overlay,
                                      image |-> InDirectory(d, <<"amd64", s.overlay>>),
                                      installer |-> InDirectory(d, <<profile.arch, s.overlay>>)]]

Customize(profile, s, v) ==
    LET argued == [profile EXCEPT !.args = s.args]
        full == [argued EXCEPT !.meta = s.meta]
    IN CASE profile.kind \in {"initramfs", "kernel"} -> profile
         [] profile.kind \in {"installer", "uki"} ->
              IF profile.secureBoot \/ v \in SupportsUnifiedInstaller THEN argued ELSE profile
         [] profile.kind = "iso" -> [full EXCEPT !.bootloader = s.bootloader]
         [] profile.kind = "image" -> [full EXCEPT !.bootloader = s.bootloader, !.sector = s.sector]
         [] OTHER -> full

WithConfig(profile, s) == IF Bare(profile) THEN profile ELSE [profile EXCEPT !.config = s.config]

\* An installer of a version that signs every UKI is signed when there are keys.
AutoSigned(parsed, v) ==
    LET profile == Unenhanced(parsed) IN
    IF ShouldAutoSign(profile, v) THEN [profile EXCEPT !.secureBoot = signing] ELSE profile

\* The profile of a name, enhanced with d the temporary directory.
Enhance(profile, s, d, v, byDigest, available) ==
    LET signed == SecureBootOptions(WithConfig(profile, s), s)
        based == BaseInstaller(signed, d, v, byDigest)
        extended == Overlay(SystemExtensions(based, s, d, v, available), s, d)
    IN [Customize(extended, s, v) EXCEPT !.version = v]

\* Mutated form: the system extensions are left as they are.
Clean_InstallerOnly(profile) == [profile EXCEPT !.installer.path = Base(@)]
\* The paths of the base installer and of the extensions lose their directory.
Clean(profile) ==
    [profile EXCEPT !.installer.path = Base(@),
                    !.extensions = [i \in DOMAIN @ |-> Base(@[i])]]

Init ==
    /\ restarts = 0 /\ directory = [r \in Replicas |-> <<r, 0>>] /\ published \in BOOLEAN
    /\ listed = [r \in Replicas |-> [v \in Versions |-> Unlisted]]
    /\ signing \in BOOLEAN /\ built = {}

\* One resolution of an asset by a replica.  A refused one leaves nothing but the
\* list it read; a repeated one is found in the caches if it has the same key.
Resolve(r, parsed, s, v, byDigest) ==
    LET profile == AutoSigned(parsed, v)
        reads == ReadsList(profile, s, v)
        inputs == IF reads THEN Digests(s, Listing(r, v)) ELSE <<>>
        enhanced == Enhance(profile, s, directory[r], v, byDigest, Listing(r, v))
    IN /\ Cardinality(built) < 2 /\ parsed # Invalid
       /\ listed' = IF reads THEN [listed EXCEPT ![r][v] = Listing(r, v)] ELSE listed
       /\ built' = IF Refused(profile, s, v, Listing(r, v)) THEN built
                   ELSE built \cup {[parsed |-> parsed, schematic |-> s, byDigest |-> byDigest, inputs |-> inputs,
                                     profile |-> enhanced, key |-> Clean(enhanced)]}
       /\ UNCHANGED <<restarts, directory, published, signing>>

\* Bound: the surroundings change between the two resolutions that are compared.
Between == Cardinality(built) = 1

\* A new process has a new directory and has listed nothing.
Restart(r) ==
    /\ restarts < MaxRestarts /\ Between
    /\ restarts' = restarts + 1 /\ directory' = [directory EXCEPT ![r] = <<r, restarts'>>]
    /\ listed' = [listed EXCEPT ![r] = [v \in Versions |-> Unlisted]]
    /\ UNCHANGED <<published, signing, built>>

Publish == ~published /\ Between /\ published' = TRUE /\ UNCHANGED <<restarts, directory, listed, signing, built>>

ResolveImage(r, path, s, v) == Resolve(r, ParseArtifactPath(path), s, v, FALSE)
ResolveInstaller(r, secureBoot, platform, s, v) == Resolve(r, InstallerProfile(secureBoot, "amd64", platform), s, v, TRUE)

Next ==
    \/ Publish
    \/ \E r \in Replicas : Restart(r)
    \/ \E r \in Replicas, s \in Schematics, v \in Versions :
          \/ \E path \in Paths : ResolveImage(r, path, s, v)
          \/ \E secureBoot \in BOOLEAN, platform \in {<<>>, <<"aws">>} : ResolveInstaller(r, secureBoot, platform, s, v)

Spec == Init /\ [][Next]_vars
-----------------------------------------------------------------------------
\* What the imager makes of a profile: the profile with what its inputs contain
\* in the place of their paths.  The kernel is the version's, the command line
\* depends on the arguments and META alone.
Contents(b) ==
    [kind |-> b.profile.kind, disk |-> b.profile.disk, format |-> b.profile.format, platform |-> b.profile.platform,
     arch |-> b.profile.arch, secureBoot |-> b.profile.secureBoot, version |-> b.profile.version,
     args |-> b.profile.args, meta |-> b.profile.meta,
     schematic |-> IF Bare(b.profile) THEN Unset ELSE b.schematic.id,
     extensions |-> b.inputs]

\* The caches never answer a request with the asset of another one: assets with
\* one key have the same contents, although the key says of the schematic and of
\* the extensions only the names of files (Hash, Clean, GetSchematicExtension).
KeyNamesAsset == \A a, b \in built : a.key = b.key => Contents(a) = Contents(b)

\* What is asked for: an installer that is signed anyway is the Secure Boot one.
Asked(b) ==
    <<[Unenhanced(b.parsed) EXCEPT !.secureBoot = b.profile.secureBoot], b.schematic, b.byDigest, b.inputs,
      b.profile.version>>

\* A replica that restarts, and another replica, finds what was built before: a
\* request for the same asset of the same inputs has the same key wherever and
\* whenever it is resolved; installer and installer-secureboot share theirs from
\* 1.14 on.  Overlays are the exception (KeyIsStable).
KeySurvivesRestart ==
    \A a, b \in built : Asked(a) = Asked(b) /\ a.profile.overlay = NoOverlay => a.key = b.key

\* The comment of Hash: fields are "trimmed/ignored to remove changes e.g. to the
\* temporary directory", for every profile.
KeyIsStable == \A a, b \in built : Asked(a) = Asked(b) => a.key = b.key
=============================================================================
