------------------------------ MODULE EnvFile ------------------------------
(***************************************************************************)
(* src/envcfg.rs, and what src/main.rs reads out of the environment: a     *)
(* KEY=value file folded into the environment, never over what is set.     *)
(*                                                                         *)
(* An environment is a function from the keys that are set to their values.*)
(* A file is a sequence of lines; a line is a record with its key, the     *)
(* text of its value, whether that is quoted and whether a comment         *)
(* follows.  Characters are not modelled.                                  *)
(***************************************************************************)
EXTENDS Naturals, SequencesExt

NoKey == "#"        \* the key of a line that has no `=', or no valid key
Misread == "#?"     \* a value that starts with a quote or a `#'

Lines == [key : STRING, text : STRING, quoted : BOOLEAN, comment : BOOLEAN]

\* A plain line, the one most files consist of.
Line(key, text) == [key |-> key, text |-> text, quoted |-> FALSE, comment |-> FALSE]

\* One layer of quotes goes if they end the line; a comment goes if a blank
\* before it is left after trim(), which of an empty value it is not.
ParseValue(l) ==
    IF l.comment /\ (l.quoted \/ l.text = "") THEN Misread ELSE l.text

\* setenv().
Put(env, key, value) ==
    [k \in {key} \cup DOMAIN env |-> IF k = key THEN value ELSE env[k]]

\* A bug: with overwrite.
SetAlwaysBug(env, l) ==
    IF l.key = NoKey THEN env ELSE Put(env, l.key, ParseValue(l))

SetIfAbsent(env, l) ==
    IF l.key = NoKey \/ l.key \in DOMAIN env THEN env
                                             ELSE Put(env, l.key, ParseValue(l))

\* The default files in the order they are looked for; <exe dir> and the
\* working directory stand for two places each.
SearchOrder ==
    <<"/data/orbit/config/orbit.env", "/data/orbit/config/orbit-rs.env",
      "./config/orbit.env", "./config/orbit-rs.env",
      "/etc/orbit-rs/orbit.env", "/etc/orbit-rs/orbit-rs.env">>

\* The file that load() reads: none or one.  "" and "none" name no file.
FileInForce(env, files) ==
    IF "ORBIT_ENV_FILE" \in DOMAIN env
    THEN {env["ORBIT_ENV_FILE"]} \cap (DOMAIN files \ {"", "none"})
    ELSE LET here == {i \in DOMAIN SearchOrder : SearchOrder[i] \in DOMAIN files}
         IN  IF here = {} THEN {} ELSE {SearchOrder[Min(here)]}

Load(env, files) ==
    IF FileInForce(env, files) = {} THEN env
    ELSE LET path == CHOOSE f \in FileInForce(env, files) : TRUE
         IN  FoldLeft(SetIfAbsent, env, files[path])

-----------------------------------------------------------------------------
\* What real_main() and goggles_net::Opts::default() read.

Var(env, key, default) == IF key \in DOMAIN env THEN env[key] ELSE default

ModeOf(env) ==
    LET mode == Var(env, "ORBIT_MODE", "")
    IN  IF mode \in {"", "aoa"} THEN "aoa"
        ELSE IF mode = "goggles-net" THEN mode ELSE "bad"

\* The renderer's argv; <<>> to write the default file.  dri: is there a card?
RendererArgv(env, dri) ==
    LET renderer == Var(env, "ORBIT_RENDERER", IF dri THEN "orbit-kms" ELSE "none")
        codec == Var(env, "ORBIT_CODEC", Var(env, "CODEC", ""))
    IN  IF renderer \in {"", "none", "off"} THEN <<>>
        ELSE IF "ORBIT_RENDERER" \notin DOMAIN env /\ codec \in {"h265", "hevc"}
        THEN <<renderer, "--h265">>
        ELSE <<renderer>>

IfaceGiven(env) == "GOGGLES_NET_IFACE" \in DOMAIN env
=============================================================================
