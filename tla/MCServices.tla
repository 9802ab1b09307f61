----------------------------- MODULE MCServices -----------------------------
(***************************************************************************)
(* Components of the Python library, and the tool rate limiter of the      *)
(* TypeScript server, on small instances for TLC. Each stands for itself:  *)
(* a behaviour of this module is a behaviour of one of them, and the       *)
(* others stay in their initial state.                                     *)
(***************************************************************************)
EXTENDS RateLimiter, FiniteSets

\* A word that is fed: does it end a sentence, is it one of the correction words.
Fed(text, commits, corrects) == [text |-> text, commits |-> commits, corrects |-> corrects]
SomeWords == {Fed("a", FALSE, FALSE), Fed("b.", TRUE, FALSE), Fed("wait", FALSE, TRUE)}

HookPriority == [h \in 1..3 |-> IF h = 1 THEN 1 ELSE 2]
HookPlugin   == [h \in 1..3 |-> IF h = 3 THEN "q" ELSE "p"]

SomeDocuments ==
  {<<"text", "titled", "list", "untitled", "text", "titled">>, <<"list", "untitled">>}

\* Letters, spaces, ends of sentences and clauses, and tags.
SomeChunks == {<<"w">>, <<"_">>, <<"w", ".">>, <<".", "w">>, <<"_", "w", "w">>, <<"w", ",">>,
               <<"[", "w", "]", "_">>}

SomeJobs == {[client |-> "c", backend |-> "cloud", voice |-> "v", chars |-> 2],
             [client |-> "d", backend |-> "tiered", voice |-> "", chars |-> 3]}

SomeVariants == [type \in {"laugh"} |-> <<[file |-> "soft", min |-> 0, max |-> 4],
                                          [file |-> "medium", min |-> 4, max |-> 7]>>]

SomeCapabilities ==
  {[formats |-> f, rates |-> r, depths |-> d, channels |-> c, format |-> "WAV", rate |-> 22050] :
     f \in {{"WAV", "MP3"}, {"FLAC", "OGG"}, {"PCM", "WAV", "FLAC"}}, r \in {{22050, 44100}, {48000}},
     d \in {{16, 32}, {24}}, c \in {{1, 2}, {2}}}
ACapability == CHOOSE c \in SomeCapabilities : TRUE

VARIABLES
  part,  \* the component this behaviour is of
  lru, graphOf, compile, uses, dropped,
  batchPhase, item, workers, batchCursor, files,
  items, placed, place, pendingEvent, current, gains,
  typed, hooks, sorting, fire,
  plugins, loadOrder, backends, compilers, callbacks, stuck,
  time, tokens, lastRefill, lock, thread, granted, made, raced, calls,
  speakers, turns, talkPhase, audio, starts, durations,
  document, landmarks, cursor, moved, table, row, column, input,
  fed, words, pending, glue, committed, marker, memory, chunks, total, heard,
  twice, stale,
  graph, clone, edits,
  buffer, auditFile, oldFiles, handle, closing, logged, gone, lost,
  metaTime, trackers, active, pricing, collected, stats,
  segments, music, effects, sceneCursor, sceneCalls, layers, mix,
  listener, downmix, sources, paths,
  embeddings, index, indexes, op, saves, confirmed, broken, staleDbs, forgotten,
  textBuffer, textFed, graphs, finals, textLost, compileRaised,
  costTime, costRecords, attributing, attributed, costRaced,
  usageTime, metrics, latencies, recorded,
  qualityTime, qualitySamples, alerts, lastAlert, qualityRecording, threshold,
  sampled, qualityRaced,
  talkers, talkTurns, talkConfig, talkerRemoved,
  presets, heap, profiles, effectNodes, ofVoice, presetFile,
  enabled, graphSamples, renders, rules, graphRecorded, matched, rulesRaised,
  eventDisk, eventAdapter, eventCache, events, speechLength, output, eventCall,
  streamed,
  running, adapter, initialized, queue, speaking, syntheses, volume, listeners,
  spoken, announced, cleared, ranThen,
  actions, position, highlighted, disturbed, ran, wordIndex, descriptions,
  isSorted, assistiveCalls,
  producer, consumer, strategy, stage, agreed,
  scriptSpeakers, registered, lines, scriptTurns

\* Two that differ in their options only, and two that the key does not tell apart.
GraphRequests ==
  {[text |-> "x", voice |-> v, options |-> "none"] : v \in {"none", "default", "v", "w"}}
  \cup {[text |-> "x", voice |-> "v", options |-> "o"]}
Runtime == INSTANCE Runtime WITH
  Threads <- {"t1", "t2"}, Requests <- GraphRequests, Enabled <- TRUE,
  MaxSize <- 2, Total <- 3, MaxWorkers <- 2, OutputDir <- TRUE, Durations <- {1, 2},
  Envelopes <- {"e1"}, MaxItems <- 4, phase <- batchPhase, cursor <- batchCursor,
  pending <- pendingEvent
Plugins == INSTANCE Plugins WITH
  Hooks <- {1, 2, 3}, Fires <- {"f"}, Priority <- HookPriority,
  PluginOf <- HookPlugin, Plugins <- {"a", "b"},
  Dependencies <- [p \in {"a", "b"} |-> IF p = "b" THEN {"a"} ELSE {}],
  MaxOrder <- 4, MaxCallbacks <- 2
AuditAndRateLimit == INSTANCE AuditAndRateLimit WITH
  Threads <- {1, 2}, Capacity <- 2, Rate <- 1, EndTime <- 2, MaxChecks <- 4,
  MinSeverity <- "info", BufferSize <- 2, FileSize <- 2, MaxFiles <- 3,
  MaxEvents <- 7, current <- auditFile
Conversation == INSTANCE Conversation WITH
  Speakers <- {"a", "b"}, Durations <- {2, 3}, Pauses <- {1}, Gap <- 1, Action <- 2,
  SpeechRate <- 2, PauseRate <- 2, MaxTurns <- 3, Names <- {"ALICE", "Alice"},
  Lower <- [n \in {"ALICE", "Alice"} |-> "alice"], Upper <- {"ALICE"},
  Voices <- {"v"}, Normalize <- TRUE, Infer <- TRUE, MaxLines <- 2,
  talkSpeakers <- speakers, talkTurns <- turns, phase <- talkPhase
Accessibility == INSTANCE Accessibility WITH
  Documents <- SomeDocuments, Tables <- {<<2, 1, 3>>, <<1>>, <<>>}, Wrap <- TRUE,
  CaptionInputs <- (0..9) \X {0, 3, 7, 10}, Readers <- <<"nvda", "jaws">>,
  CanDuck <- {"jaws"}, Listeners <- {"l"}, QueueLimit <- 2, Interval <- 25,
  Percents <- {20, 25, 100}, MaxSyntheses <- 2, MaxAnnounced <- 3,
  Names <- {"a", "b"}, TextWords <- 2, Times <- {0, 2, 3}, Tolerance <- 1,
  MaxCalls <- 5, calls <- assistiveCalls
IncrementalSpeech == INSTANCE IncrementalSpeech WITH
  Words <- SomeWords, Sizes <- {0, 1}, MaxSamples <- 2, Repetition <- TRUE,
  SynthMaxFed <- 5, Chunks <- SomeChunks, MaxBuffer <- 4, CompilerMaxFed <- 6,
  synthFed <- fed, buffer <- textBuffer, lost <- textLost, raised <- compileRaised
Graph == INSTANCE AudioGraph WITH
  Names <- {"m", "d"}, Effects <- {"e"}, MaxDepth <- 1, MaxEdits <- 4
Observability == INSTANCE Observability WITH
  Ids <- {"i"}, Backends <- {"b"}, Prices <- {0, 2}, MaxTracked <- 2, EndTime <- 1,
  Values <- {2, 3}, MaxRecords <- 2, MaxRules <- 2, time <- metaTime,
  samples <- graphSamples, recorded <- graphRecorded, raised <- rulesRaised
Scenes == INSTANCE Scenes WITH
  Lengths <- {1, 3}, SceneDurations <- {0, 2}, Transitions <- {1, 2},
  Starts <- {0, 4}, MaxCalls <- 4, SpatialNames <- {"a", "b"}, MaxSources <- 1,
  Times <- {0, 2, 5}, Distances <- {1, 4}, MaxSpeed <- 1, MaxKeyframes <- 3,
  TalkNames <- {"a", "b"}, TalkDurations <- {2, 5}, Overlaps <- {0, 3},
  MaxTurns <- 3, cursor <- sceneCursor, calls <- sceneCalls, speakers <- talkers,
  turns <- talkTurns, config <- talkConfig, removed <- talkerRemoved
VoiceLibraries == INSTANCE VoiceLibraries WITH
  Dbs <- {1, 2}, Raws <- {"a", "A ", "b", "!"}, Speakers <- {"a", "b"},
  MaxSaves <- 3, Names <- {"transparent", "a"}, Voices <- {"v"}, MaxHeap <- 25,
  files <- embeddings, memory <- indexes, stale <- staleDbs, nodes <- effectNodes,
  file <- presetFile
Analytics == INSTANCE Analytics WITH
  CostThreads <- {"s", "t"}, Jobs <- SomeJobs, CostRetention <- 2, PeriodDays <- 2,
  RecentDays <- 2, CostMaxRecords <- 3, CostEndTime <- 3, UsageRetention <- 2,
  MaxLatencies <- 2, UsageMaxRecords <- 3, UsageEndTime <- 3,
  QualityThreads <- {"s", "t"}, QualityVoices <- {"v"}, Scores <- {0, 4, 9},
  Threshold <- 7, LowThreshold <- 3, Cooldown <- 2, Window <- 1, MaxSamples <- 2,
  QualityMaxRecords <- 3, QualityEndTime <- 4, records <- costRecords,
  samples <- qualitySamples, recording <- qualityRecording
Event == INSTANCE AudioEvents WITH
  Variants <- SomeVariants, Types <- {"laugh", "gasp"}, Intensities <- {2, 4, 9},
  Starts <- {0, 2, 5}, Lengths <- {0, 3}, MaxEvents <- 2, Losable <- {"soft"},
  disk <- eventDisk, adapter <- eventAdapter, cache <- eventCache,
  length <- speechLength, call <- eventCall
Format == INSTANCE FormatNegotiation WITH
  Capabilities <- SomeCapabilities, result <- agreed

graphCacheVars == <<lru, graphOf, compile, uses, dropped>>
batchSynthesizerVars == <<batchPhase, item, workers, batchCursor, files>>
timelineVars == <<items, placed, place, pendingEvent, current, gains>>
hookManagerVars == <<typed, hooks, sorting, fire>>
pluginRegistryVars == <<plugins, loadOrder, backends, compilers, callbacks, stuck>>
tokenBucketVars == <<time, tokens, lastRefill, lock, thread, granted, made, raced,
                     calls>>
conversationVars == <<speakers, turns, talkPhase, audio, starts, durations>>
navigationVars == <<document, landmarks, cursor, moved, table, row, column, input>>
incrementalSynthesizerVars == <<fed, words, pending, glue, committed, marker,
                                memory, chunks, total, heard, twice, stale>>
audioGraphVars == <<graph, clone, edits>>
auditLogVars == <<buffer, auditFile, oldFiles, handle, closing, logged, gone,
                  lost>>
synthesisMetadataVars == <<metaTime, trackers, active, pricing, collected, stats>>
sceneMixVars == <<segments, music, effects, sceneCursor, sceneCalls, layers, mix>>
spatialGraphVars == <<listener, downmix, sources, paths>>
speakerStoreVars == <<embeddings, index, indexes, op, saves, confirmed, broken,
                      staleDbs, forgotten>>
incrementalCompilerVars == <<textBuffer, textFed, graphs, finals, textLost,
                             compileRaised>>
costTrackerVars == <<costTime, costRecords, attributing, attributed, costRaced>>
usageTrackerVars == <<usageTime, metrics, latencies, recorded>>
qualityMonitorVars == <<qualityTime, qualitySamples, alerts, lastAlert,
                        qualityRecording, threshold, sampled, qualityRaced>>
conversationGraphVars == <<talkers, talkTurns, talkConfig, talkerRemoved>>
presetLibraryVars == <<presets, heap, profiles, effectNodes, ofVoice, presetFile>>
graphMetricsVars == <<enabled, graphSamples, renders, rules, graphRecorded, matched,
                      rulesRaised>>
audioEventsVars == <<eventDisk, eventAdapter, eventCache, events, speechLength,
                     output, eventCall, streamed>>
screenReaderVars == <<running, adapter, initialized, queue, speaking, syntheses,
                      volume, listeners, spoken, announced, cleared, ranThen>>
assistiveControlVars == <<actions, position, highlighted, disturbed, ran, wordIndex,
                          descriptions, isSorted, assistiveCalls>>
formatNegotiationVars == <<producer, consumer, strategy, stage, agreed>>
scriptParserVars == <<scriptSpeakers, registered, lines, scriptTurns>>
hostVars == <<part, vars, graphCacheVars, batchSynthesizerVars, timelineVars, hookManagerVars,
              pluginRegistryVars, tokenBucketVars, conversationVars, navigationVars,
              incrementalSynthesizerVars, audioGraphVars, auditLogVars,
              synthesisMetadataVars, sceneMixVars, spatialGraphVars,
              speakerStoreVars, incrementalCompilerVars, costTrackerVars,
              usageTrackerVars, qualityMonitorVars, conversationGraphVars,
              presetLibraryVars, graphMetricsVars, audioEventsVars,
              screenReaderVars, assistiveControlVars, formatNegotiationVars,
              scriptParserVars>>

Parts == {"limiter", "cache", "batch", "timeline", "hooks", "registry", "bucket",
           "conversation", "navigation", "streaming", "graph", "audit", "metadata",
           "scene", "spatial", "speakers", "compiler", "cost", "usage", "quality",
           "talk", "presets", "graphMetrics", "audioEvents", "screenReader",
           "assistive", "negotiation", "script"}

HostInit ==
  /\ part \in Parts
  /\ IF part = "audioEvents" THEN TRUE ELSE speechLength = 0
  /\ IF part = "screenReader" THEN TRUE ELSE running = {} /\ adapter = "none"
  /\ IF part = "negotiation" THEN TRUE ELSE producer = ACapability /\ consumer = ACapability /\ strategy = "speed"
  /\ Init /\ Runtime!CacheInit /\ Runtime!BatchInit /\ Runtime!TimelineInit /\ Plugins!HookInit
  /\ Plugins!RegistryInit /\ AuditAndRateLimit!BucketInit /\ Conversation!TalkInit
  /\ Accessibility!NavigationInit /\ IncrementalSpeech!SynthInit /\ Graph!Init
  /\ AuditAndRateLimit!AuditInit /\ Observability!MetadataInit /\ Scenes!SceneInit
  /\ Scenes!SpatialInit /\ VoiceLibraries!SpeakerInit
  /\ IncrementalSpeech!CompilerInit /\ Analytics!CostInit /\ Analytics!UsageInit
  /\ Analytics!QualityInit /\ Scenes!TalkInit /\ VoiceLibraries!PresetInit
  /\ Observability!GraphInit /\ Event!Init /\ Accessibility!ReaderInit
  /\ Accessibility!AssistiveInit /\ Format!Init /\ Conversation!ScriptInit
  /\ part # "hooks" => typed
  /\ part # "navigation" => input = <<0, 0>>
  /\ part # "metadata" => \A b \in DOMAIN pricing : pricing[b] = 0
  /\ part # "graphMetrics" => "render_time_ms" \in enabled

HostNext ==
  \/ /\ part = "limiter" /\ Next
     /\ UNCHANGED <<part, graphCacheVars, batchSynthesizerVars, timelineVars,
                    hookManagerVars, pluginRegistryVars, tokenBucketVars,
                    conversationVars, navigationVars, incrementalSynthesizerVars,
                    audioGraphVars, auditLogVars, synthesisMetadataVars,
                    sceneMixVars, spatialGraphVars, speakerStoreVars,
                    incrementalCompilerVars, costTrackerVars, usageTrackerVars,
                    qualityMonitorVars, conversationGraphVars, presetLibraryVars,
                    graphMetricsVars, audioEventsVars, screenReaderVars,
                    assistiveControlVars, formatNegotiationVars, scriptParserVars>>
  \/ /\ part = "cache" /\ Runtime!CacheNext
     /\ UNCHANGED <<part, vars, batchSynthesizerVars, timelineVars, hookManagerVars,
                    pluginRegistryVars, tokenBucketVars, conversationVars,
                    navigationVars, incrementalSynthesizerVars, audioGraphVars,
                    auditLogVars, synthesisMetadataVars, sceneMixVars, spatialGraphVars,
                    speakerStoreVars, incrementalCompilerVars, costTrackerVars,
                    usageTrackerVars, qualityMonitorVars, conversationGraphVars,
                    presetLibraryVars, graphMetricsVars, audioEventsVars,
                    screenReaderVars, assistiveControlVars, formatNegotiationVars,
                    scriptParserVars>>
  \/ /\ part = "batch" /\ Runtime!BatchNext
     /\ UNCHANGED <<part, vars, graphCacheVars, timelineVars, hookManagerVars,
                    pluginRegistryVars, tokenBucketVars, conversationVars,
                    navigationVars, incrementalSynthesizerVars, audioGraphVars,
                    auditLogVars, synthesisMetadataVars, sceneMixVars, spatialGraphVars,
                    speakerStoreVars, incrementalCompilerVars, costTrackerVars,
                    usageTrackerVars, qualityMonitorVars, conversationGraphVars,
                    presetLibraryVars, graphMetricsVars, audioEventsVars,
                    screenReaderVars, assistiveControlVars, formatNegotiationVars,
                    scriptParserVars>>
  \/ /\ part = "timeline" /\ Runtime!TimelineNext
     /\ UNCHANGED <<part, vars, graphCacheVars, batchSynthesizerVars, hookManagerVars,
                    pluginRegistryVars, tokenBucketVars, conversationVars,
                    navigationVars, incrementalSynthesizerVars, audioGraphVars,
                    auditLogVars, synthesisMetadataVars, sceneMixVars, spatialGraphVars,
                    speakerStoreVars, incrementalCompilerVars, costTrackerVars,
                    usageTrackerVars, qualityMonitorVars, conversationGraphVars,
                    presetLibraryVars, graphMetricsVars, audioEventsVars,
                    screenReaderVars, assistiveControlVars, formatNegotiationVars,
                    scriptParserVars>>
  \/ /\ part = "hooks" /\ Plugins!HookNext
     /\ UNCHANGED <<part, vars, graphCacheVars, batchSynthesizerVars, timelineVars,
                    pluginRegistryVars, tokenBucketVars, conversationVars,
                    navigationVars, incrementalSynthesizerVars, audioGraphVars,
                    auditLogVars, synthesisMetadataVars, sceneMixVars, spatialGraphVars,
                    speakerStoreVars, incrementalCompilerVars, costTrackerVars,
                    usageTrackerVars, qualityMonitorVars, conversationGraphVars,
                    presetLibraryVars, graphMetricsVars, audioEventsVars,
                    screenReaderVars, assistiveControlVars, formatNegotiationVars,
                    scriptParserVars>>
  \/ /\ part = "registry" /\ Plugins!RegistryNext
     /\ UNCHANGED <<part, vars, graphCacheVars, batchSynthesizerVars, timelineVars,
                    hookManagerVars, tokenBucketVars, conversationVars, navigationVars,
                    incrementalSynthesizerVars, audioGraphVars, auditLogVars,
                    synthesisMetadataVars, sceneMixVars, spatialGraphVars,
                    speakerStoreVars, incrementalCompilerVars, costTrackerVars,
                    usageTrackerVars, qualityMonitorVars, conversationGraphVars,
                    presetLibraryVars, graphMetricsVars, audioEventsVars,
                    screenReaderVars, assistiveControlVars, formatNegotiationVars,
                    scriptParserVars>>
  \/ /\ part = "bucket" /\ AuditAndRateLimit!BucketNext
     /\ UNCHANGED <<part, vars, graphCacheVars, batchSynthesizerVars, timelineVars,
                    hookManagerVars, pluginRegistryVars, conversationVars,
                    navigationVars, incrementalSynthesizerVars, audioGraphVars,
                    auditLogVars, synthesisMetadataVars, sceneMixVars, spatialGraphVars,
                    speakerStoreVars, incrementalCompilerVars, costTrackerVars,
                    usageTrackerVars, qualityMonitorVars, conversationGraphVars,
                    presetLibraryVars, graphMetricsVars, audioEventsVars,
                    screenReaderVars, assistiveControlVars, formatNegotiationVars,
                    scriptParserVars>>
  \/ /\ part = "conversation" /\ Conversation!TalkNext
     /\ UNCHANGED <<part, vars, graphCacheVars, batchSynthesizerVars, timelineVars,
                    hookManagerVars, pluginRegistryVars, tokenBucketVars,
                    navigationVars, incrementalSynthesizerVars, audioGraphVars,
                    auditLogVars, synthesisMetadataVars, sceneMixVars, spatialGraphVars,
                    speakerStoreVars, incrementalCompilerVars, costTrackerVars,
                    usageTrackerVars, qualityMonitorVars, conversationGraphVars,
                    presetLibraryVars, graphMetricsVars, audioEventsVars,
                    screenReaderVars, assistiveControlVars, formatNegotiationVars,
                    scriptParserVars>>
  \/ /\ part = "navigation" /\ Accessibility!NavigationNext
     /\ UNCHANGED <<part, vars, graphCacheVars, batchSynthesizerVars, timelineVars,
                    hookManagerVars, pluginRegistryVars, tokenBucketVars,
                    conversationVars, incrementalSynthesizerVars, audioGraphVars,
                    auditLogVars, synthesisMetadataVars, sceneMixVars, spatialGraphVars,
                    speakerStoreVars, incrementalCompilerVars, costTrackerVars,
                    usageTrackerVars, qualityMonitorVars, conversationGraphVars,
                    presetLibraryVars, graphMetricsVars, audioEventsVars,
                    screenReaderVars, assistiveControlVars, formatNegotiationVars,
                    scriptParserVars>>
  \/ /\ part = "streaming" /\ IncrementalSpeech!SynthNext
     /\ UNCHANGED <<part, vars, graphCacheVars, batchSynthesizerVars, timelineVars,
                    hookManagerVars, pluginRegistryVars, tokenBucketVars,
                    conversationVars, navigationVars, audioGraphVars, auditLogVars,
                    synthesisMetadataVars, sceneMixVars, spatialGraphVars,
                    speakerStoreVars, incrementalCompilerVars, costTrackerVars,
                    usageTrackerVars, qualityMonitorVars, conversationGraphVars,
                    presetLibraryVars, graphMetricsVars, audioEventsVars,
                    screenReaderVars, assistiveControlVars, formatNegotiationVars,
                    scriptParserVars>>
  \/ /\ part = "graph" /\ Graph!Next
     /\ UNCHANGED <<part, vars, graphCacheVars, batchSynthesizerVars, timelineVars,
                    hookManagerVars, pluginRegistryVars, tokenBucketVars,
                    conversationVars, navigationVars, incrementalSynthesizerVars,
                    auditLogVars, synthesisMetadataVars, sceneMixVars, spatialGraphVars,
                    speakerStoreVars, incrementalCompilerVars, costTrackerVars,
                    usageTrackerVars, qualityMonitorVars, conversationGraphVars,
                    presetLibraryVars, graphMetricsVars, audioEventsVars,
                    screenReaderVars, assistiveControlVars, formatNegotiationVars,
                    scriptParserVars>>
  \/ /\ part = "audit" /\ AuditAndRateLimit!AuditNext
     /\ UNCHANGED <<part, vars, graphCacheVars, batchSynthesizerVars, timelineVars,
                    hookManagerVars, pluginRegistryVars, tokenBucketVars,
                    conversationVars, navigationVars, incrementalSynthesizerVars,
                    audioGraphVars, synthesisMetadataVars, sceneMixVars,
                    spatialGraphVars, speakerStoreVars, incrementalCompilerVars,
                    costTrackerVars, usageTrackerVars, qualityMonitorVars,
                    conversationGraphVars, presetLibraryVars, graphMetricsVars,
                    audioEventsVars, screenReaderVars, assistiveControlVars,
                    formatNegotiationVars, scriptParserVars>>
  \/ /\ part = "metadata" /\ Observability!MetadataNext
     /\ UNCHANGED <<part, vars, graphCacheVars, batchSynthesizerVars, timelineVars,
                    hookManagerVars, pluginRegistryVars, tokenBucketVars,
                    conversationVars, navigationVars, incrementalSynthesizerVars,
                    audioGraphVars, auditLogVars, sceneMixVars, spatialGraphVars,
                    speakerStoreVars, incrementalCompilerVars, costTrackerVars,
                    usageTrackerVars, qualityMonitorVars, conversationGraphVars,
                    presetLibraryVars, graphMetricsVars, audioEventsVars,
                    screenReaderVars, assistiveControlVars, formatNegotiationVars,
                    scriptParserVars>>
  \/ /\ part = "scene" /\ Scenes!SceneNext
     /\ UNCHANGED <<part, vars, graphCacheVars, batchSynthesizerVars, timelineVars,
                    hookManagerVars, pluginRegistryVars, tokenBucketVars,
                    conversationVars, navigationVars, incrementalSynthesizerVars,
                    audioGraphVars, auditLogVars, synthesisMetadataVars,
                    spatialGraphVars, speakerStoreVars, incrementalCompilerVars,
                    costTrackerVars, usageTrackerVars, qualityMonitorVars,
                    conversationGraphVars, presetLibraryVars, graphMetricsVars,
                    audioEventsVars, screenReaderVars, assistiveControlVars,
                    formatNegotiationVars, scriptParserVars>>
  \/ /\ part = "spatial" /\ Scenes!SpatialNext
     /\ UNCHANGED <<part, vars, graphCacheVars, batchSynthesizerVars, timelineVars,
                    hookManagerVars, pluginRegistryVars, tokenBucketVars,
                    conversationVars, navigationVars, incrementalSynthesizerVars,
                    audioGraphVars, auditLogVars, synthesisMetadataVars, sceneMixVars,
                    speakerStoreVars, incrementalCompilerVars, costTrackerVars,
                    usageTrackerVars, qualityMonitorVars, conversationGraphVars,
                    presetLibraryVars, graphMetricsVars, audioEventsVars,
                    screenReaderVars, assistiveControlVars, formatNegotiationVars,
                    scriptParserVars>>
  \/ /\ part = "speakers" /\ VoiceLibraries!SpeakerNext
     /\ UNCHANGED <<part, vars, graphCacheVars, batchSynthesizerVars, timelineVars,
                    hookManagerVars, pluginRegistryVars, tokenBucketVars,
                    conversationVars, navigationVars, incrementalSynthesizerVars,
                    audioGraphVars, auditLogVars, synthesisMetadataVars, sceneMixVars,
                    spatialGraphVars, incrementalCompilerVars, costTrackerVars,
                    usageTrackerVars, qualityMonitorVars, conversationGraphVars,
                    presetLibraryVars, graphMetricsVars, audioEventsVars,
                    screenReaderVars, assistiveControlVars, formatNegotiationVars,
                    scriptParserVars>>
  \/ /\ part = "compiler" /\ IncrementalSpeech!CompilerNext
     /\ UNCHANGED <<part, vars, graphCacheVars, batchSynthesizerVars, timelineVars,
                    hookManagerVars, pluginRegistryVars, tokenBucketVars,
                    conversationVars, navigationVars, incrementalSynthesizerVars,
                    audioGraphVars, auditLogVars, synthesisMetadataVars, sceneMixVars,
                    spatialGraphVars, speakerStoreVars, costTrackerVars,
                    usageTrackerVars, qualityMonitorVars, conversationGraphVars,
                    presetLibraryVars, graphMetricsVars, audioEventsVars,
                    screenReaderVars, assistiveControlVars, formatNegotiationVars,
                    scriptParserVars>>
  \/ /\ part = "cost" /\ Analytics!CostNext
     /\ UNCHANGED <<part, vars, graphCacheVars, batchSynthesizerVars, timelineVars,
                    hookManagerVars, pluginRegistryVars, tokenBucketVars,
                    conversationVars, navigationVars, incrementalSynthesizerVars,
                    audioGraphVars, auditLogVars, synthesisMetadataVars, sceneMixVars,
                    spatialGraphVars, speakerStoreVars, incrementalCompilerVars,
                    usageTrackerVars, qualityMonitorVars, conversationGraphVars,
                    presetLibraryVars, graphMetricsVars, audioEventsVars,
                    screenReaderVars, assistiveControlVars, formatNegotiationVars,
                    scriptParserVars>>
  \/ /\ part = "usage" /\ Analytics!UsageNext
     /\ UNCHANGED <<part, vars, graphCacheVars, batchSynthesizerVars, timelineVars,
                    hookManagerVars, pluginRegistryVars, tokenBucketVars,
                    conversationVars, navigationVars, incrementalSynthesizerVars,
                    audioGraphVars, auditLogVars, synthesisMetadataVars, sceneMixVars,
                    spatialGraphVars, speakerStoreVars, incrementalCompilerVars,
                    costTrackerVars, qualityMonitorVars, conversationGraphVars,
                    presetLibraryVars, graphMetricsVars, audioEventsVars,
                    screenReaderVars, assistiveControlVars, formatNegotiationVars,
                    scriptParserVars>>
  \/ /\ part = "quality" /\ Analytics!QualityNext
     /\ UNCHANGED <<part, vars, graphCacheVars, batchSynthesizerVars, timelineVars,
                    hookManagerVars, pluginRegistryVars, tokenBucketVars,
                    conversationVars, navigationVars, incrementalSynthesizerVars,
                    audioGraphVars, auditLogVars, synthesisMetadataVars, sceneMixVars,
                    spatialGraphVars, speakerStoreVars, incrementalCompilerVars,
                    costTrackerVars, usageTrackerVars, conversationGraphVars,
                    presetLibraryVars, graphMetricsVars, audioEventsVars,
                    screenReaderVars, assistiveControlVars, formatNegotiationVars,
                    scriptParserVars>>
  \/ /\ part = "talk" /\ Scenes!TalkNext
     /\ UNCHANGED <<part, vars, graphCacheVars, batchSynthesizerVars, timelineVars,
                    hookManagerVars, pluginRegistryVars, tokenBucketVars,
                    conversationVars, navigationVars, incrementalSynthesizerVars,
                    audioGraphVars, auditLogVars, synthesisMetadataVars, sceneMixVars,
                    spatialGraphVars, speakerStoreVars, incrementalCompilerVars,
                    costTrackerVars, usageTrackerVars, qualityMonitorVars,
                    presetLibraryVars, graphMetricsVars, audioEventsVars,
                    screenReaderVars, assistiveControlVars, formatNegotiationVars,
                    scriptParserVars>>
  \/ /\ part = "presets" /\ VoiceLibraries!PresetNext
     /\ UNCHANGED <<part, vars, graphCacheVars, batchSynthesizerVars, timelineVars,
                    hookManagerVars, pluginRegistryVars, tokenBucketVars,
                    conversationVars, navigationVars, incrementalSynthesizerVars,
                    audioGraphVars, auditLogVars, synthesisMetadataVars, sceneMixVars,
                    spatialGraphVars, speakerStoreVars, incrementalCompilerVars,
                    costTrackerVars, usageTrackerVars, qualityMonitorVars,
                    conversationGraphVars, graphMetricsVars, audioEventsVars,
                    screenReaderVars, assistiveControlVars, formatNegotiationVars,
                    scriptParserVars>>
  \/ /\ part = "graphMetrics" /\ Observability!GraphNext
     /\ UNCHANGED <<part, vars, graphCacheVars, batchSynthesizerVars, timelineVars,
                    hookManagerVars, pluginRegistryVars, tokenBucketVars,
                    conversationVars, navigationVars, incrementalSynthesizerVars,
                    audioGraphVars, auditLogVars, synthesisMetadataVars, sceneMixVars,
                    spatialGraphVars, speakerStoreVars, incrementalCompilerVars,
                    costTrackerVars, usageTrackerVars, qualityMonitorVars,
                    conversationGraphVars, presetLibraryVars, audioEventsVars,
                    screenReaderVars, assistiveControlVars, formatNegotiationVars,
                    scriptParserVars>>
  \/ /\ part = "audioEvents" /\ Event!Next
     /\ UNCHANGED <<part, vars, graphCacheVars, batchSynthesizerVars, timelineVars,
                    hookManagerVars, pluginRegistryVars, tokenBucketVars,
                    conversationVars, navigationVars, incrementalSynthesizerVars,
                    audioGraphVars, auditLogVars, synthesisMetadataVars, sceneMixVars,
                    spatialGraphVars, speakerStoreVars, incrementalCompilerVars,
                    costTrackerVars, usageTrackerVars, qualityMonitorVars,
                    conversationGraphVars, presetLibraryVars, graphMetricsVars,
                    screenReaderVars, assistiveControlVars, formatNegotiationVars,
                    scriptParserVars>>
  \/ /\ part = "screenReader" /\ Accessibility!ReaderNext
     /\ UNCHANGED <<part, vars, graphCacheVars, batchSynthesizerVars, timelineVars,
                    hookManagerVars, pluginRegistryVars, tokenBucketVars,
                    conversationVars, navigationVars, incrementalSynthesizerVars,
                    audioGraphVars, auditLogVars, synthesisMetadataVars, sceneMixVars,
                    spatialGraphVars, speakerStoreVars, incrementalCompilerVars,
                    costTrackerVars, usageTrackerVars, qualityMonitorVars,
                    conversationGraphVars, presetLibraryVars, graphMetricsVars,
                    audioEventsVars, assistiveControlVars, formatNegotiationVars,
                    scriptParserVars>>
  \/ /\ part = "assistive" /\ Accessibility!AssistiveNext
     /\ UNCHANGED <<part, vars, graphCacheVars, batchSynthesizerVars, timelineVars,
                    hookManagerVars, pluginRegistryVars, tokenBucketVars,
                    conversationVars, navigationVars, incrementalSynthesizerVars,
                    audioGraphVars, auditLogVars, synthesisMetadataVars, sceneMixVars,
                    spatialGraphVars, speakerStoreVars, incrementalCompilerVars,
                    costTrackerVars, usageTrackerVars, qualityMonitorVars,
                    conversationGraphVars, presetLibraryVars, graphMetricsVars,
                    audioEventsVars, screenReaderVars, formatNegotiationVars,
                    scriptParserVars>>
  \/ /\ part = "negotiation" /\ Format!Next
     /\ UNCHANGED <<part, vars, graphCacheVars, batchSynthesizerVars, timelineVars,
                    hookManagerVars, pluginRegistryVars, tokenBucketVars,
                    conversationVars, navigationVars, incrementalSynthesizerVars,
                    audioGraphVars, auditLogVars, synthesisMetadataVars, sceneMixVars,
                    spatialGraphVars, speakerStoreVars, incrementalCompilerVars,
                    costTrackerVars, usageTrackerVars, qualityMonitorVars,
                    conversationGraphVars, presetLibraryVars, graphMetricsVars,
                    audioEventsVars, screenReaderVars, assistiveControlVars,
                    scriptParserVars>>
  \/ /\ part = "script" /\ Conversation!ScriptNext
     /\ UNCHANGED <<part, vars, graphCacheVars, batchSynthesizerVars, timelineVars,
                    hookManagerVars, pluginRegistryVars, tokenBucketVars,
                    conversationVars, navigationVars, incrementalSynthesizerVars,
                    audioGraphVars, auditLogVars, synthesisMetadataVars, sceneMixVars,
                    spatialGraphVars, speakerStoreVars, incrementalCompilerVars,
                    costTrackerVars, usageTrackerVars, qualityMonitorVars,
                    conversationGraphVars, presetLibraryVars, graphMetricsVars,
                    audioEventsVars, screenReaderVars, assistiveControlVars,
                    formatNegotiationVars>>

HostSpec == HostInit /\ [][HostNext]_hostVars

-----------------------------------------------------------------------------
\* Type invariant of every component.
WellTyped ==
  CASE part = "limiter" -> TypeOK
    [] part = "cache" -> Runtime!CacheTypeOK
    [] part = "batch" -> Runtime!BatchTypeOK
    [] part = "timeline" -> Runtime!TimelineTypeOK
    [] part = "hooks" -> Plugins!HookTypeOK
    [] part = "registry" -> Plugins!RegistryTypeOK
    [] part = "bucket" -> AuditAndRateLimit!BucketTypeOK
    [] part = "conversation" -> Conversation!TalkTypeOK
    [] part = "navigation" -> Accessibility!NavigationTypeOK
    [] part = "streaming" -> IncrementalSpeech!SynthTypeOK
    [] part = "graph" -> Graph!TypeOK
    [] part = "audit" -> AuditAndRateLimit!AuditTypeOK
    [] part = "metadata" -> Observability!MetadataTypeOK
    [] part = "scene" -> Scenes!SceneTypeOK
    [] part = "spatial" -> Scenes!SpatialTypeOK
    [] part = "speakers" -> VoiceLibraries!SpeakerTypeOK
    [] part = "compiler" -> IncrementalSpeech!CompilerTypeOK
    [] part = "cost" -> Analytics!CostTypeOK
    [] part = "usage" -> Analytics!UsageTypeOK
    [] part = "quality" -> Analytics!QualityTypeOK
    [] part = "talk" -> Scenes!TalkTypeOK
    [] part = "presets" -> VoiceLibraries!PresetTypeOK
    [] part = "graphMetrics" -> Observability!GraphTypeOK
    [] part = "audioEvents" -> Event!TypeOK
    [] part = "screenReader" -> Accessibility!ReaderTypeOK
    [] part = "assistive" -> Accessibility!AssistiveTypeOK
    [] part = "negotiation" -> Format!TypeOK
    [] part = "script" -> Conversation!ScriptTypeOK

\* What is counted is what happened, under threads and faults (rate_limit.py,
\* streaming/synthesizer.py, audit.py, observability.py, analytics): a bucket admits no more
\* than its burst and rate but when a refill without the lock overlaps another; the buffer's
\* total is its chunks'; an accepted event is kept once and in order or was rotated away or
\* lost by a fault; a tracker counts once; what was attributed is billed once but when a
\* clean-up overlaps another thread's record; a usage query finds each synthesis once; alerts
\* keep their cooldown from check to check, and a rule counts each sample over its threshold unless one before it
\* raised.
CountsAgree ==
  /\ part = "bucket" => AuditAndRateLimit!BurstUnlessRaced
  /\ part = "streaming" => IncrementalSpeech!BufferAccounts
  /\ part = "audit" => AuditAndRateLimit!EventsKept /\ AuditAndRateLimit!FilesBounded /\ AuditAndRateLimit!LostByFaultOnly
  /\ part = "metadata" => Observability!CollectedOnce /\ Observability!ActiveIsNewest
  /\ part = "cost" => /\ Analytics!BilledOnce /\ Analytics!ReportAddsUp
                      /\ Analytics!EachCharacterPriced /\ Analytics!ForecastIsUsage
  /\ part = "usage" => Analytics!QueryExact /\ Analytics!NewestLatencies
  /\ part = "quality" => Analytics!AlertsSpaced /\ Analytics!RegressionIsReal
  /\ part = "graphMetrics" => Observability!RulesCountAll /\ Observability!ReportIsLast

\* What is kept to be answered again is the right thing (cache.py, screen_readers): a caller
\* gets a graph of its own text and voice, if not of the options that are no part of the key,
\* and what is evicted is what was used longest ago; the screen reader a bridge found is the first that ran when it looked.
CacheIsExact ==
  /\ part = "cache" => Runtime!OwnGraph /\ Runtime!MostRecentKept
  /\ part = "screenReader" => Accessibility!FirstRunning

\* batch.py, timeline.py, ducking.py, conversation.py, scenes, v3/spatial.py,
\* v3/conversation.py, compiler/incremental.py: an item that succeeded has its audio and its
\* file; items stand where the durations before them add up to, with the ducking that was
\* on; a turn starts where the audio before it ends, or by its overlap earlier; a layer is
\* heard once and in its place, over music that is ducked for speech and for nothing else;
\* a source keeps to its way and its speed, and its gain falls with the distance; text fed
\* in chunks is compiled once and in order, and cut in a word only when it must be;
\* recorded events are played where they stand in the speech, of which nothing is lost, in the
\* variant that fits best (audio_events.py).
AudioInItsPlace ==
  /\ part = "batch" => Runtime!SuccessIsWhole
  /\ part = "timeline" => Runtime!PlacedExactly /\ Runtime!DuckedExactly
  /\ part = "conversation" => Conversation!TimelineMatchesAudio
  /\ part = "scene" => Scenes!HeardOnceInPlace /\ Scenes!OverlapIsCrossfade /\ Scenes!DuckedUnderSpeech
  /\ part = "spatial" => Scenes!StaysOnTheWay /\ Scenes!SpeedKept /\ Scenes!GainFalls
  /\ part = "talk" => Scenes!NoUnaskedOverlap /\ Scenes!NotBeforeStart /\ Scenes!DuckedByOthers
  /\ part = "compiler" => /\ IncrementalSpeech!SaidOnce /\ IncrementalSpeech!NothingOverdue
                          /\ IncrementalSpeech!WordsCutOnlyByForce /\ IncrementalSpeech!TagsAreEvents
  /\ part = "audioEvents" => Event!SpeechWhole /\ Event!EventsInPlace /\ Event!PlayedFits

\* hooks.py, registry.py: callbacks run by priority, a trigger reaches all that stay, and
\* of a plugin that was unregistered the registry keeps its hooks' callbacks and nothing else.
PluginsInOrder ==
  /\ part = "hooks" => Plugins!CalledByPriority /\ Plugins!TriggerReachesAll
  /\ part = "registry" => Plugins!NothingLeftBehind

\* Structures that are edited stay consistent (navigation.py, captions.py, audio_graph.py,
\* v3/spatial.py, database.py, presets.py): cursors stay in what they move over, captions
\* cover their words once and in order; when diff() is silent the graphs agree in all it
\* compares; movement is of sources that are there; embeddings survive what cuts other
\* operations short, and the index is right until a torn or a stale one takes its place;
\* what is handed out for a voice is apart from the library, and files load in place; a switch
\* runs what it highlighted and descriptions are found in order (motor.py, descriptions.py); no
\* reader stays lowered when speech ends, and the newest announcements are kept (bridge.py); a
\* script's lines become turns of its speakers in order (parser.py); a format that is agreed
\* on without a note is one both support (negotiation.py).
EditsConsistent ==
  /\ part = "navigation" => Accessibility!CursorsValid /\ Accessibility!PiecesCover
  /\ part = "graph" => Graph!DiffMirrors /\ Graph!BreakageIsDiffed /\ Graph!SilentMeansSame
  /\ part = "spatial" => Scenes!PathsOfSources
  /\ part = "speakers" => VoiceLibraries!EmbeddingsSurvive /\ VoiceLibraries!IndexIsRight
  /\ part = "presets" => VoiceLibraries!PresetsAreApart /\ VoiceLibraries!LoadedInPlace
  /\ part = "talk" => Scenes!ReadBack
  /\ part = "assistive" => /\ Accessibility!RunsWhatWasHighlighted /\ Accessibility!TrackInOrder
                           /\ Accessibility!WordOfText
  /\ part = "screenReader" => Accessibility!NotLeftDucked /\ Accessibility!QueueIsNewest
  /\ part = "script" => Conversation!SpeakersOfTurns /\ Conversation!LinesBecomeTurns
  /\ part = "negotiation" => Format!SilentMeansSupported /\ Format!SameForBoth
=============================================================================
