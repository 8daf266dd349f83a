------------------------------ MODULE LogSystem ------------------------------
(***************************************************************************)
(* A log system (logger.c): configured loggers with their appenders, the   *)
(* loggers that were asked for, where a message goes, and how a system is  *)
(* configured from JSON.  A name is a sequence of characters.  A configured*)
(* logger is named by its name, so CreateLogger is called once per name:   *)
(* a second one frees the first, which loggers may refer to.               *)
(* levelloggers is left out: nothing reads it.                             *)
(***************************************************************************)
EXTENDS Integers, Sequences, SequencesExt, FiniteSets

CONSTANTS NULL,
          Names,        \* of configured loggers and loggers; <<>> is the root
          Appenders,    \* names of appenders
          MaxLevel,     \* the level Fatal; 1 is Trace
          LowerKey(_),  \* a key of a configuration in lower case
          AppenderItem, \* items of a configuration: functions from keys
          LoggerItem,
          MaxConfs, MaxLoggers  \* bounds on the loggers of a system

Level == 1 .. MaxLevel
Put(f, k, v) == [x \in DOMAIN f \cup {k} |-> IF x = k THEN v ELSE f[x]]
NoMap == <<>>

LogSystemCreateInternal == [appenders |-> {}, cloggers |-> NoMap, loggers |-> NoMap, stderr |-> {}]

AddAppender(s, a) == [s EXCEPT !.appenders = @ \cup {a}]

CreateLogger(s, name, level, additivity) ==
  [s EXCEPT !.cloggers = Put(@, name, [level |-> level, additivity |-> additivity,
                                       lvlapndrs |-> [l \in Level |-> {}]])]

ConfLoggerAddAppender(s, name, a, level) ==
  [AddAppender(s, a) EXCEPT
     !.cloggers[name].lvlapndrs = [l \in Level |-> IF l >= level THEN @[l] \cup {a} ELSE @[l]]]

(* The name of the configured logger starts this one, up to its end or a   *)
(* dot.                                                                    *)
Covers(conf, name) ==
  \/ conf = <<>>
  \/ /\ Len(conf) <= Len(name) /\ SubSeq(name, 1, Len(conf)) = conf
     /\ Len(name) = Len(conf) \/ name[Len(conf) + 1] = "."

(* Longer names first.                                                     *)
LoggerRefComparator(a, b) == Len(a) > Len(b)

(* The level is that of the longest name.                                  *)
NewLogger(s, name) ==
  LET refs == SetToSortSeq({c \in DOMAIN s.cloggers : Covers(c, name)}, LoggerRefComparator)
  IN  [logrefs |-> refs, minlevel |-> IF refs = <<>> THEN MaxLevel ELSE s.cloggers[refs[1]].level]

GetLogger(s, name) ==
  IF name \in DOMAIN s.loggers THEN s ELSE [s EXCEPT !.loggers = Put(@, name, NewLogger(s, name))]

IsEnabled(logger, level) == level >= logger.minlevel

ConfLoggerLog(s, conf, level) == s.cloggers[conf].lvlapndrs[level]

(* The configured loggers that the message is handed to.                   *)
Handed(s, logger) ==
  LET refs == logger.logrefs
      stop == {i \in DOMAIN refs : ~s.cloggers[refs[i]].additivity}
      n    == IF stop = {} THEN Len(refs) ELSE CHOOSE i \in stop : \A j \in stop : i <= j
  IN  SubSeq(refs, 1, n)

(* How often each appender gets a message of this level.                   *)
LogEx(s, logger, level) ==
  LET to == Handed(s, logger)
  IN  [a \in s.appenders |->
         IF ~IsEnabled(logger, level) THEN 0
         ELSE Cardinality({i \in DOMAIN to : /\ s.cloggers[to[i]].level <= level
                                             /\ a \in ConfLoggerLog(s, to[i], level)})]

----------------------------------------------------------------------------
(* Configuration.  Keys become lower case, wherever they stand.            *)
LogConfigClean(item) ==
  [k \in {LowerKey(k) : k \in DOMAIN item} |-> item[CHOOSE x \in DOMAIN item : LowerKey(x) = k]]
Of(item, key, default) == IF key \in DOMAIN item THEN item[key] ELSE default

(* NULL when the item is refused.  A pattern that is not understood is     *)
(* FALSE.                                                                  *)
ProcessOneAppender(s, item) ==
  LET type   == Of(item, "type", NULL)
      needs  == CASE type \in {"file", "rollingfile"} -> "filename"
                  [] type = "socket" -> "listenport" [] OTHER -> "name"
      refused == \/ type \notin {"console", "file", "rollingfile", "socket"}
                 \/ {"name", needs} \ DOMAIN item # {}
                 \/ Of(item, "asyncbuffersize", 256) < 10
                 \/ Of(item, "pattern", TRUE) = FALSE
      added  == AddAppender(s, item["name"])
  IN  IF refused THEN NULL
      ELSE IF item["name"] \notin s.appenders /\ type = "console" /\ Of(item, "useStderr", FALSE)
           THEN [added EXCEPT !.stderr = @ \cup {item["name"]}] ELSE added

(* A reference names an appender, and may have a level of its own.         *)
ProcessAppenderRef(s, name, ref, level) ==
  IF s = NULL \/ ref.ref \notin s.appenders \/ ref.level \notin Level \cup {NULL} THEN NULL
  ELSE ConfLoggerAddAppender(s, name, ref.ref, IF ref.level = NULL THEN level ELSE ref.level)

(* A single object instead of a list of references is taken for none.      *)
ProcessOneLogger(s, item) ==
  LET root  == Of(item, "type", "logger") = "root"
      name  == IF root THEN <<>> ELSE Of(item, "name", <<>>)
      level == Of(item, "level", NULL)
      made  == CreateLogger(s, name, level, Of(item, "additivity", TRUE))
  IN  IF (name = <<>> /\ ~root) \/ level \notin Level THEN NULL
      ELSE FoldLeft(LAMBDA sys, ref : ProcessAppenderRef(sys, name, ref, level),
                    made, Of(item, "appenderref", <<>>))

ProcessAppenders(s, items) ==
  FoldLeft(LAMBDA sys, item : IF sys = NULL THEN NULL ELSE ProcessOneAppender(sys, LogConfigClean(item)),
           s, items)
ProcessLoggers(s, items) ==
  FoldLeft(LAMBDA sys, item : IF sys = NULL THEN NULL ELSE ProcessOneLogger(sys, LogConfigClean(item)),
           s, items)

LogSystemConfigureDefault ==
  ConfLoggerAddAppender(CreateLogger(LogSystemCreateInternal, <<>>, 2, TRUE), <<>>, "__CONSOL", 2)

(* Appenders and loggers are both processed, whether or not the other is   *)
(* fine; a configuration that lacks either or has a bad item is not used.  *)
ConfigureInternal(appenders, loggers) ==
  LET one == ProcessAppenders(LogSystemCreateInternal, appenders)
      two == IF one = NULL THEN NULL ELSE ProcessLoggers(one, loggers)
  IN  IF appenders = NULL \/ loggers = NULL THEN LogSystemConfigureDefault
      ELSE IF two = NULL THEN LogSystemConfigureDefault ELSE two

(* A file that is missing or no JSON gives NULL.                           *)
ConfigureFomJson(json) ==
  IF json = NULL THEN LogSystemConfigureDefault ELSE ConfigureInternal(json.appenders, json.loggers)

----------------------------------------------------------------------------
VARIABLE st
vars == <<st>>

To(s) == st' = [st EXCEPT !.s = s]
Init == st = [s |-> LogSystemCreateInternal, json |-> NULL]

(* A program builds its log system in code or from a file.                 *)
Create == \E name \in Names, level \in Level, additivity \in BOOLEAN :
            /\ st.json = NULL
            /\ name \notin DOMAIN st.s.cloggers /\ Cardinality(DOMAIN st.s.cloggers) < MaxConfs
            /\ To(CreateLogger(st.s, name, level, additivity))
Attach == \E name \in DOMAIN st.s.cloggers, a \in Appenders, level \in Level :
            st.json = NULL /\ To(ConfLoggerAddAppender(st.s, name, a, level))
Get    == \E name \in Names :
            Cardinality(DOMAIN st.s.loggers) < MaxLoggers /\ To(GetLogger(st.s, name))

(* A configuration of up to two appenders and loggers, or a file without   *)
(* one of the two parts, or none.                                          *)
UpTo2(S) == {<<>>} \cup {<<a>> : a \in S} \cup {<<a, b>> : a, b \in S}
Configure ==
  /\ st.s = LogSystemCreateInternal /\ st.json = NULL
  /\ \/ \E apps \in UpTo2(AppenderItem) \cup {NULL}, logs \in UpTo2(LoggerItem) \cup {NULL} :
          LET names == [i \in DOMAIN logs |-> Of(LogConfigClean(logs[i]), "name", <<>>)]
          IN  /\ logs # NULL => \A i, j \in DOMAIN logs : i # j => names[i] # names[j]
              /\ st' = [s |-> ConfigureFomJson([appenders |-> apps, loggers |-> logs]),
                        json |-> [appenders |-> apps, loggers |-> logs]]
     \/ To(ConfigureFomJson(NULL))
Destroy == st.s # LogSystemCreateInternal /\ st' = [s |-> LogSystemCreateInternal, json |-> NULL]

Next == Create \/ Attach \/ Get \/ Configure \/ Destroy
Spec == Init /\ [][Next]_vars
----------------------------------------------------------------------------
Parts(name) ==
  LET from[p \in Nat] ==
        IF \A i \in p .. Len(name) : name[i] # "." THEN <<SubSeq(name, p, Len(name))>>
        ELSE LET q == CHOOSE i \in p .. Len(name) : name[i] = "." /\ \A j \in p .. i - 1 : name[j] # "."
             IN  <<SubSeq(name, p, q - 1)>> \o from[q + 1]
  IN  IF name = <<>> THEN <<>> ELSE from[1]

(* Where a message of a logger goes, by the rules of README.md: the closest*)
(* configured logger decides the level, and the ones above it get the      *)
(* message unless one below them keeps it.                                 *)
Reached(s, name, level, a) ==
  LET anc     == {c \in DOMAIN s.cloggers : IsPrefix(Parts(c), Parts(name))}
      below(c, d) == Len(Parts(c)) < Len(Parts(d))
      closest == {c \in anc : ~\E d \in anc : below(c, d)}
      heard   == {c \in anc : ~\E d \in anc : below(c, d) /\ ~s.cloggers[d].additivity}
  IN  IF anc = {} \/ \E c \in closest : level < s.cloggers[c].level THEN 0
      ELSE Cardinality({c \in heard : /\ s.cloggers[c].level <= level
                                      /\ a \in s.cloggers[c].lvlapndrs[level]})

BadAppender(item) ==
  \/ {"name", "type"} \ DOMAIN item # {}
  \/ item["type"] \notin {"console", "file", "rollingfile", "socket"}
  \/ item["type"] \in {"file", "rollingfile"} /\ "filename" \notin DOMAIN item
  \/ item["type"] = "socket" /\ "listenport" \notin DOMAIN item
  \/ "asyncbuffersize" \in DOMAIN item /\ item["asyncbuffersize"] < 10
  \/ "pattern" \in DOMAIN item /\ ~item["pattern"]
BadLogger(item, known) ==
  \/ "level" \notin DOMAIN item
  \/ "type" \notin DOMAIN item /\ "name" \notin DOMAIN item
  \/ "appenderref" \in DOMAIN item /\ \E i \in DOMAIN item["appenderref"] : item["appenderref"][i].ref \notin known

(* A message goes where the rules say, for a logger made now; one made     *)
(* before still refers to configured loggers only.  What a logger appends  *)
(* to belongs to the system, which destroys it, and appends at each level  *)
(* above.  A configuration is taken as a whole or not at all: one bad item *)
(* gives the built-in one.                                                 *)
LogSystemSound ==
  LET s == st.s
      items == [i \in DOMAIN st.json.appenders |-> LogConfigClean(st.json.appenders[i])]
      logs  == [i \in DOMAIN st.json.loggers |-> LogConfigClean(st.json.loggers[i])]
      known == {items[i]["name"] : i \in DOMAIN items}
      bad   == IF st.json.appenders = NULL \/ st.json.loggers = NULL THEN TRUE
               ELSE IF \E i \in DOMAIN items : BadAppender(items[i]) THEN TRUE
               ELSE \E i \in DOMAIN logs : BadLogger(logs[i], known)
      default == LogSystemConfigureDefault
  IN  /\ \A name \in Names, level \in Level :
           LET to == LogEx(s, NewLogger(s, name), level)
           IN  DOMAIN s.cloggers # {} => \A a \in s.appenders : to[a] = Reached(s, name, level, a)
      /\ \A name \in DOMAIN s.loggers :
           LET refs == s.loggers[name].logrefs
           IN  ToSet(refs) \subseteq ToSet(NewLogger(s, name).logrefs)
      /\ \A c \in DOMAIN s.cloggers, l \in Level :
           /\ s.cloggers[c].lvlapndrs[l] \subseteq s.appenders
           /\ l < MaxLevel => s.cloggers[c].lvlapndrs[l] \subseteq s.cloggers[c].lvlapndrs[l + 1]
      /\ st.json # NULL =>
           IF bad THEN s.appenders = default.appenders /\ s.cloggers = default.cloggers
           ELSE /\ s.appenders = known
                /\ DOMAIN s.cloggers = {Of(logs[i], "name", <<>>) : i \in DOMAIN logs}
=============================================================================
