----------------------------- MODULE ArtifactPaths -----------------------------
(***************************************************************************)
(* The names under which artifacts are asked for and the profiles they are *)
(* parsed into: the parsers of /image, /pxe and the registry.  A name is a *)
(* record of its words, which dashes separate, and of its suffixes.        *)
(***************************************************************************)
EXTENDS Sequences, SequencesExt

\* What a Talos version supports (the quirks of the Talos libraries; external).
Versions == {"v1.4", "v1.12", "v1.14"}
SupportsSecureBoot == {"v1.12", "v1.14"}
SupportsOverlay == {"v1.12", "v1.14"}
SupportsUnifiedInstaller == {"v1.12", "v1.14"}
SupportsEmbeddedConfig == {"v1.12", "v1.14"}
ForcesLockdownConfidentiality == {"v1.12"}

\* A string that is not set.
Unset == ""

Path(words, suffixes) == [words |-> words, suffixes |-> suffixes]

Checksums == {"sha256", "sha512"}
Sidecars == Checksums \cup {"sigstore.json"}

\* One sidecar is cut off; a second one stays in the name.
SplitArtifactPath(path) ==
    IF path.suffixes # <<>> /\ Last(path.suffixes) \in Sidecars
    THEN [path EXCEPT !.suffixes = Front(@)] ELSE path

\* The profile of a name, before the schematic: what its parser sets.
Parsed(kind, disk, format, platform, arch, secureBoot) ==
    [kind |-> kind, disk |-> disk, format |-> format,
     platform |-> platform, arch |-> arch, secureBoot |-> secureBoot]

Invalid == Parsed("invalid", Unset, Unset, Unset, Unset, FALSE)

Arches == {"amd64", "arm64"}

\* iPXE has names of its own for amd64.
ParseArch(words) ==
    CASE Len(words) = 1 /\ words[1] \in Arches -> words[1]
      [] Len(words) = 1 /\ words[1] \in {"x86_64", "i386"} -> "amd64"
      [] OTHER -> Unset

OfArch(kind, platform, words, secureBoot) ==
    IF ParseArch(words) = Unset THEN Invalid
    ELSE Parsed(kind, Unset, "raw", platform, ParseArch(words), secureBoot)

CutSecureBoot(words) == IF words # <<>> /\ Last(words) = "secureboot" THEN Front(words) ELSE words
HasSecureBoot(words) == CutSecureBoot(words) # words

\* Mutated form: a platform is one word.
ParsePlatformArch_OneWord(kind, words) ==
    LET cut == CutSecureBoot(words) IN
    IF Len(cut) < 2 THEN Invalid ELSE OfArch(kind, cut[1], Tail(cut), HasSecureBoot(words))

\* The only platform with a dash in its name is recognised by its two words.
ParsePlatformArch(kind, words) ==
    LET cut == CutSecureBoot(words)
        dashed == Len(cut) > 2 /\ cut[1] = "digital" /\ cut[2] = "ocean"
    IN IF Len(cut) < 2 THEN Invalid
       ELSE IF dashed THEN OfArch(kind, "digital-ocean", SubSeq(cut, 3, Len(cut)), HasSecureBoot(words))
       ELSE OfArch(kind, cut[1], Tail(cut), HasSecureBoot(words))

DiskFormats == {"raw", "qcow2", "vhd", "ova"}
OutFormats == {"tar.gz", "gz", "xz", "zst"}

ParseDiskImage(path) ==
    LET image == ParsePlatformArch("image", path.words)
        suffixes == path.suffixes
    IN IF image = Invalid \/ suffixes = <<>> \/ Head(suffixes) \notin DiskFormats THEN Invalid
       ELSE IF Len(suffixes) = 1 THEN [image EXCEPT !.disk = suffixes[1]]
       ELSE IF Len(suffixes) = 2 /\ suffixes[2] \in OutFormats
            THEN [image EXCEPT !.disk = suffixes[1], !.format = suffixes[2]]
       ELSE Invalid

\* The first word "installer" that is neither the first nor the last word.
InstallerWord(words) == SelectInSeq(Tail(Front(words)), LAMBDA w : w = "installer") + 1

\* The order of the rules is the code's: what one does not recognise falls
\* through to the next, and at the end the name must be one of a disk image.
ParseFromPath(path) ==
    LET words == path.words
        first == words[1]
        plain == path.suffixes = <<>>
        has(suffix) == path.suffixes = <<suffix>>
    IN IF first = "kernel" /\ Len(words) > 1 THEN
          IF plain THEN OfArch("kernel", "metal", Tail(words), FALSE) ELSE Invalid
       ELSE IF first = "cmdline" /\ Len(words) > 1 THEN
          IF plain THEN ParsePlatformArch("cmdline", Tail(words)) ELSE Invalid
       ELSE IF first = "initramfs" /\ Len(words) > 1 /\ has("xz") THEN
          OfArch("initramfs", "metal", Tail(words), FALSE)
       ELSE IF has("iso") THEN ParsePlatformArch("iso", words)
       ELSE IF has("efi") /\ Len(words) > 1 /\ Last(words) = "uki" THEN
          ParsePlatformArch("uki", Front(words))
       ELSE IF first = "installer" /\ Len(words) > 1 /\ has("tar") THEN
          OfArch("installer", "metal", CutSecureBoot(Tail(words)), HasSecureBoot(Tail(words)))
       ELSE IF has("tar") /\ Len(words) > 2 /\ InstallerWord(words) > 1 THEN
          ParsePlatformArch("installer", RemoveAt(words, InstallerWord(words)))
       ELSE ParseDiskImage(path)

ParseArtifactPath(path) == ParseFromPath(SplitArtifactPath(path))

\* The repository of an installer image: [platform-]installer[-secureboot].
GetRequestedImage(words) ==
    LET cut == CutSecureBoot(words) IN
    IF cut = <<>> \/ Last(cut) # "installer" THEN <<>> ELSE <<Front(cut), HasSecureBoot(words)>>

Name(words) == IF words = <<"digital", "ocean">> THEN "digital-ocean" ELSE words[1]

InstallerProfile(secureBoot, arch, platform) ==
    Parsed("installer", Unset, "raw", IF platform = <<>> THEN "metal" ELSE Name(platform), arch, secureBoot)
=============================================================================
