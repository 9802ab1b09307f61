---------------------------- MODULE MCToolServer ----------------------------
(***************************************************************************)
(* The components of the MCP server (TypeScript), and of what serves calls *)
(* in the library (the cluster and its monitoring), on small instances for *)
(* TLC. They share no state but through the calls that the gate's requests *)
(* stand for, so that a behaviour of this module is a behaviour of one of  *)
(* them, and the others stay in their initial state.                       *)
(***************************************************************************)
EXTENDS SynthesisGate

\* A word: where it stands, how long it is, what follows it.
Word(i, size, stop) == [at |-> i, size |-> size, stop |-> stop]
Short == <<Word(1, 1, "none")>>
Long  == <<Word(1, 2, "sentence"), Word(2, 3, "none")>>
Speech(texts) == [kind |-> "emotion", texts |-> texts]
Stops == {"sentence", "clause", "none"}

\* Calls of several cues and spans, and every text of three words in one span.
CueLists ==
  {<<Speech(<<Long, Short>>)>>, <<Speech(<<>>)>>,
   <<[kind |-> "plain", texts |-> <<>>], [kind |-> "pause", texts |-> <<>>], Speech(<<Short>>)>>}
  \cup {<<Speech(<<<<Word(1, s[1], f[1]), Word(2, s[2], f[2]), Word(3, s[3], "none")>>>>)>> :
          s \in [1..3 -> {1, 2, 4}], f \in [1..2 -> Stops]}

EffectTexts == {<<"word">>, <<"effect", "word", "effect">>, <<"word", "unknown">>}

VARIABLES
  part,  \* the component this behaviour is of
  runCues, at, chunks, artifacts, lines, aborted, runPhase,
  line, cues, speakers, casting, autoIdx, parsing,
  read, segments, nodes, chars, open, spoken, raw, ssmlPhase,
  piece, words, opened, tagsHeld, spans, parsed, lastIndex, sfxCalls,
  clusterNodes, status, failures, successes, checking, rrIndex, connections,
  task,
  healthTime, lastCheck, lastTime, checkOf, healthAnswer, overlapped, stopEvent,
  monitor, control, wanted, late,
  counter, histogram, recording, export, observed, records,
  clock, buffer, lastEmit, lastOf, emitted

SpeechRun == INSTANCE SpeechRun WITH
  MaxChunk <- 3, MinChunk <- 2, MaxTotal <- 8, MaxChunks <- 3, Abortable <- TRUE,
  Cues <- CueLists, cues <- runCues, phase <- runPhase
DialogueAndAmbient == INSTANCE DialogueAndAmbient WITH
  SpeakerNames <- {"a", "b", "c", "d"}, Pool <- <<"g", "j", "e">>,
  CastVoices <- {"j", "x"}, PauseTimes <- {9}, MaxPause <- 5, MaxSpeakers <- 3,
  MaxCues <- 3, MaxLines <- 4, Categories <- {"g", "t"}, GlobalCooldown <- 1,
  CategoryCooldown <- 2, MaxBuffer <- 2, Ttl <- 4, EndTime <- 7
SpeechMarkup == INSTANCE SpeechMarkup WITH
  MaxNodes <- 4, MaxChars <- 2, MaxBreak <- 300, Breaks <- {400}, SsmlMaxInput <- 5,
  Names <- {"joy", "sad"}, Known <- {"joy"}, TagsMaxInput <- 4,
  Texts <- EffectTexts, MaxCalls <- 2, phase <- ssmlPhase, held <- tagsHeld
Cluster == INSTANCE Cluster WITH
  Calls <- {"c1", "c2"}, FirstNodes <- <<"a">>, Spare <- {"b"},
  Strategy <- "least_connections", MaxRetries <- 1, Failover <- TRUE,
  Unhealthy <- 2, Healthy <- 1, Wrap <- 2, nodes <- clusterNodes
Monitoring == INSTANCE Monitoring WITH
  Callers <- {"a"}, EndTime <- 5, Recorders <- {"r", "s"}, Backends <- {"k", "p"},
  Latencies <- {5, 50, 500}, MaxSamples <- 2, MaxRecords <- 3, time <- healthTime,
  checking <- checkOf, answer <- healthAnswer

speechRunVars == <<runCues, at, chunks, artifacts, lines, aborted, runPhase>>
dialogueVars == <<line, cues, speakers, casting, autoIdx, parsing>>
ssmlParserVars == <<read, segments, nodes, chars, open, spoken, raw, ssmlPhase>>
inlineTagsVars == <<piece, words, opened, tagsHeld, spans, parsed, lastIndex,
                    sfxCalls>>
clusterVars == <<clusterNodes, status, failures, successes, checking, rrIndex,
                 connections, task>>
healthCheckVars == <<healthTime, lastCheck, lastTime, checkOf, healthAnswer,
                     overlapped, stopEvent, monitor, control, wanted, late>>
metricsVars == <<counter, histogram, recording, export, observed, records>>
ambientEmitterVars == <<clock, buffer, lastEmit, lastOf, emitted>>
hostVars == <<part, vars, speechRunVars, dialogueVars, ssmlParserVars,
              inlineTagsVars, clusterVars, healthCheckVars, metricsVars,
              ambientEmitterVars>>

Parts == {"gate", "run", "dialogue", "ssml", "tags", "cluster",
           "health", "metrics", "ambient"}

HostInit ==
  /\ part \in Parts
  /\ Init /\ SpeechRun!Init /\ DialogueAndAmbient!DialogueInit
  /\ SpeechMarkup!SsmlInit /\ SpeechMarkup!TagsInit /\ Cluster!Init
  /\ Monitoring!HealthInit /\ Monitoring!MetricInit /\ DialogueAndAmbient!AmbientInit

HostNext ==
  \/ /\ part = "gate" /\ Next
     /\ UNCHANGED <<part, speechRunVars, dialogueVars, ssmlParserVars,
                    inlineTagsVars, clusterVars, healthCheckVars, metricsVars,
                    ambientEmitterVars>>
  \/ /\ part = "run" /\ SpeechRun!Next
     /\ UNCHANGED <<part, vars, dialogueVars, ssmlParserVars,
                    inlineTagsVars, clusterVars, healthCheckVars, metricsVars,
                    ambientEmitterVars>>
  \/ /\ part = "dialogue" /\ DialogueAndAmbient!DialogueNext
     /\ UNCHANGED <<part, vars, speechRunVars, ssmlParserVars,
                    inlineTagsVars, clusterVars, healthCheckVars, metricsVars,
                    ambientEmitterVars>>
  \/ /\ part = "ssml" /\ SpeechMarkup!SsmlNext
     /\ UNCHANGED <<part, vars, speechRunVars, dialogueVars,
                    inlineTagsVars, clusterVars, healthCheckVars, metricsVars,
                    ambientEmitterVars>>
  \/ /\ part = "tags" /\ SpeechMarkup!TagsNext
     /\ UNCHANGED <<part, vars, speechRunVars, dialogueVars,
                    ssmlParserVars, clusterVars, healthCheckVars, metricsVars,
                    ambientEmitterVars>>
  \/ /\ part = "cluster" /\ Cluster!Next
     /\ UNCHANGED <<part, vars, speechRunVars, dialogueVars,
                    ssmlParserVars, inlineTagsVars, healthCheckVars, metricsVars,
                    ambientEmitterVars>>
  \/ /\ part = "health" /\ Monitoring!HealthNext
     /\ UNCHANGED <<part, vars, speechRunVars, dialogueVars,
                    ssmlParserVars, inlineTagsVars, clusterVars, metricsVars,
                    ambientEmitterVars>>
  \/ /\ part = "metrics" /\ Monitoring!MetricNext
     /\ UNCHANGED <<part, vars, speechRunVars, dialogueVars,
                    ssmlParserVars, inlineTagsVars, clusterVars, healthCheckVars,
                    ambientEmitterVars>>
  \/ /\ part = "ambient" /\ DialogueAndAmbient!AmbientNext
     /\ UNCHANGED <<part, vars, speechRunVars, dialogueVars,
                    ssmlParserVars, inlineTagsVars, clusterVars, healthCheckVars,
                    metricsVars>>

HostSpec == HostInit /\ [][HostNext]_hostVars
  /\ Fairness

-----------------------------------------------------------------------------
\* Type invariant of every component.
WellTyped ==
  /\ TypeOK /\ SpeechRun!TypeOK /\ DialogueAndAmbient!DialogueTypeOK
  /\ SpeechMarkup!SsmlTypeOK /\ SpeechMarkup!TagsTypeOK /\ DialogueAndAmbient!AmbientTypeOK
  /\ Cluster!TypeOK /\ Monitoring!HealthTypeOK /\ Monitoring!MetricTypeOK

\* From markup to audio (the parsers of ssml and emotion, chunker, orchestrator, concat):
\* however tags overlap or are left open, the plan says every text once and in order;
\* its chunks fit and say it; they are made in that order; and a line has all of them
\* but for files that were lost.
SpeechIsWhole ==
  /\ SpeechMarkup!Balanced /\ SpeechMarkup!SaysEverything /\ SpeechMarkup!NothingLost
  /\ SpeechRun!ChunksSayTheText /\ SpeechRun!MadeInOrder /\ SpeechRun!LineIsWhole

\* emitter.ts, dialogue/parser.ts, cluster.py, health.py, metrics.py: thoughts keep their
\* distances and the newest are kept; voices do not repeat while the pool lasts; a node's
\* connections are the calls at it; a health answer from the cache is fresh unless checks
\* overlapped and is the worst of the components, and the monitor runs when it was started;
\* counter and histogram agree on the syntheses, and an export is whole or ends.
LimitsKept ==
  /\ DialogueAndAmbient!SpacedAndNewest /\ DialogueAndAmbient!NewVoiceWhileItLasts
  /\ part = "cluster" => Cluster!ConnectionsCounted
  /\ part = "health" => Monitoring!CachedIsFresh /\ Monitoring!MonitoredWhenStarted /\ Monitoring!WorstReported
  /\ part = "metrics" => Monitoring!CountsObserved /\ Monitoring!HistogramAgrees /\ Monitoring!ExportIsWhole
=============================================================================
