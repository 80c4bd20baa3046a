------------------------------ MODULE NpmProject ------------------------------
(***************************************************************************)
(* What depguard reads from package.json and package-lock.json.            *)
(*                                                                         *)
(* A JSON document is a function from paths to the strings found there.  A *)
(* path is a sequence of keys, and a key a sequence of the segments that   *)
(* its '/' characters separate: the key "node_modules/left-pad" has two    *)
(* segments, the key "version" has one.  A file that is not there is the   *)
(* document without paths.  A version range is an operator and a version.  *)
(***************************************************************************)
EXTENDS Sequences

CONSTANTS
  Package,  \* the dependency verified, its name as a key
  Missing   \* no value

Sections == <<"dependencies", "devDependencies", "optionalDependencies", "peerDependencies">>

(* Value::pointer: a JSON pointer is split at every '/', so that each of its
   tokens is a key of one segment. *)
Pointer(doc, segments) ==
  LET path == [i \in DOMAIN segments |-> <<segments[i]>>] IN
  IF path \in DOMAIN doc THEN doc[path] ELSE Missing

(* current_direct_version: the locked version, else the one that the first
   section naming the package gives, without its operator. *)
CurrentDirectVersion(p) ==
  LET locked == Pointer(p.lock, <<"packages", "node_modules">> \o Package \o <<"version">>)
      ranges == [i \in DOMAIN Sections |-> Pointer(p.manifest, <<Sections[i]>> \o Package)]
      found == SelectSeq(ranges, LAMBDA range : range # Missing)
  IN IF locked # Missing THEN locked
     ELSE IF found # << >> THEN found[1].version
     ELSE Missing

(* prepare_world: entries.contains_key(name) in one of the sections. *)
IsDirect(p) == \E i \in DOMAIN Sections : <<(<<Sections[i]>>), Package>> \in DOMAIN p.manifest

(* The version npm installs from the lockfile. *)
LockedVersion(p) ==
  LET path == <<(<<"packages">>), <<"node_modules">> \o Package, <<"version">> >> IN
  IF path \in DOMAIN p.lock THEN p.lock[path] ELSE Missing
=============================================================================
