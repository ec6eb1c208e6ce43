------------------------------ MODULE ArcPyTools ------------------------------
(* The registry of honua_migrate/code/python/arcpy.py: the ArcPy tools that *)
(* have a process of Honua, how an argument of a call becomes an input or  *)
(* an output of the process, and whether the server can run it as a job.   *)
EXTENDS Naturals, Sequences, Functions, TLC

\* The processes the server can run as jobs.
ExecutableProcesses ==
  {"geometry.buffer", "geometry.project", "geometry.simplify", "geometry.clip",
   "geometry.intersect", "geometry.union", "geometry.dissolve", "geometry.make-valid",
   "analytics.spatial-join-managed"}

NoJob == "no-job"

\* params: the names of the parameters in ArcPy, in their order; aliases: other
\* names of an argument, as pairs of a name and the process's own name.
Registered(family, tool, job, params, aliases) ==
  [family |-> family, tool |-> tool, job |-> job, params |-> params, aliases |-> aliases]

Result == {<<"output", "result">>, <<"out_features", "result">>}
Distance == {<<"input_features", "input_features">>, <<"distance", "distance">>}
Same(name) == {<<name, name>>}

InOut == <<"in_features", "out_feature_class">>
InWith(other) == <<"in_features", other, "out_feature_class">>

AnalysisTools ==
  LET Tool(tool, job, params, aliases) == Registered("analysis", tool, job, params, aliases)
  IN { Tool("buffer", "geometry.buffer",
            InOut \o <<"buffer_distance_or_field", "line_side", "line_end_type",
                       "dissolve_option", "dissolve_field", "method">>, Distance \union Result),
       Tool("clip", "geometry.clip", InWith("clip_features") \o <<"cluster_tolerance">>, Result),
       Tool("intersect", "geometry.intersect",
            InOut \o <<"join_attributes", "cluster_tolerance", "output_type">>,
            Result \union {<<"inputs", "input_features">>}),
       Tool("erase", NoJob, InWith("erase_features") \o <<"cluster_tolerance">>, Result),
       Tool("union", "geometry.union",
            InOut \o <<"join_attributes", "cluster_tolerance", "gaps">>,
            Result \union {<<"inputs", "input_features">>}),
       Tool("spatialjoin", "analytics.spatial-join-managed",
            <<"target_features", "join_features", "out_feature_class", "join_operation",
              "join_type", "field_mapping", "match_option", "search_radius",
              "distance_field_name", "match_fields">>, Result) }

\* Tools that copy, transform or repair features.
FeatureTools ==
  LET Tool(tool, job, params, aliases) == Registered("management", tool, job, params, aliases)
  IN { Tool("dissolve", "geometry.dissolve",
            InOut \o <<"dissolve_field", "statistics_fields", "multi_part", "unsplit_lines">>,
            Result),
       Tool("copyfeatures", NoJob, InOut, Result),
       Tool("project", "geometry.project",
            <<"in_dataset", "out_dataset", "out_coor_system", "transform_method",
              "in_coor_system", "preserve_shape", "max_deviation", "vertical">>,
            Result \union {<<"in_features", "input_features">>, <<"out_feature_class", "result">>}),
       Tool("repairgeometry", "geometry.make-valid",
            <<"in_features", "delete_null", "validation_method">>,
            {<<"input_layer", "input_features">>}) }

LayerTools ==
  LET Tool(tool, params, aliases) == Registered("management", tool, NoJob, params, aliases)
  IN { Tool("makefeaturelayer",
            <<"in_features", "out_layer", "where_clause", "workspace", "field_info">>,
            {<<"filter", "where">>, <<"output", "layer">>}),
       Tool("selectlayerbyattribute",
            <<"in_layer_or_view", "selection_type", "where_clause", "invert_where_clause">>,
            {<<"filter", "where">>, <<"input_layer", "input_features">>}),
       Tool("selectlayerbylocation",
            <<"in_layer", "overlap_type", "select_features", "search_distance",
              "selection_type", "invert_spatial_relationship">>,
            {<<"input_layer", "input_features">>, <<"relationship", "relationship">>}),
       Tool("merge", <<"inputs", "output", "field_mappings", "add_source">>,
            {<<"out_feature_class", "result">>, <<"out_features", "result">>}),
       Tool("append",
            <<"inputs", "target", "schema_type", "field_mapping", "subtype", "expression",
              "match_fields", "update_geometry">>, {<<"where_clause", "where">>}) }

OverlayTools ==
  LET Tool(family, tool, params) == Registered(family, tool, NoJob, params, Result)
  IN { Registered("analysis", "graphicbuffer", "geometry.buffer",
            InOut \o <<"buffer_distance_or_field", "line_caps", "line_joins", "miter_limit",
                       "max_deviation">>, Distance \union Result),
       Tool("management", "minimumboundinggeometry",
            InOut \o <<"geometry_type", "group_option", "group_field", "mbg_fields_option">>),
       Tool("management", "featuretopoint", InOut \o <<"point_location">>),
       Tool("analysis", "symdiff",
            InWith("update_features") \o <<"join_attributes", "cluster_tolerance">>),
       Tool("analysis", "update",
            InWith("update_features") \o <<"keep_borders", "cluster_tolerance">>) }

ShapeTools ==
  LET Simplify(tool, params) ==
        Registered("cartography", tool, "geometry.simplify", InOut \o <<"algorithm", "tolerance">>
                     \o params, Result \union {<<"simplification_tolerance", "tolerance">>})
      Tool(tool, params) == Registered("management", tool, NoJob, params, Result)
  IN { Simplify("simplifypolygon", <<"minimum_area", "error_option", "collapsed_point_option">>),
       Simplify("simplifyline", <<"error_resolving_option", "collapsed_point_option">>),
       Tool("multiparttosinglepart", InOut),
       Tool("featuretoline", InOut \o <<"cluster_tolerance", "attributes">>),
       Tool("featuretopolygon", InOut \o <<"cluster_tolerance", "attributes", "label_features">>),
       Tool("polygontoline", InOut \o <<"neighbor_option">>) }

SmoothingTools ==
  LET Smooth(tool) == Registered("cartography", tool, NoJob,
                                 InOut \o <<"algorithm", "tolerance", "error_option">>, Result)
  IN { Smooth("smoothpolygon"), Smooth("smoothline"),
       Registered("editing", "densify", NoJob,
                  <<"in_features", "densification_method", "distance", "max_deviation",
                    "max_angle">>, Same("method")),
       Registered("analysis", "near", NoJob,
                  <<"in_features", "near_features", "search_radius", "location", "angle",
                    "method">>, Same("method")) }

\* No raster tool is a job by itself.
SurfaceTools ==
  LET Tool(tool, params, aliases) == Registered("spatial-analyst", tool, NoJob, params, aliases)
      window == {<<"window_radius", "windowRadius">>}
  IN { Tool("slope", <<"in_raster", "output_measurement", "z_factor">>,
            {<<"output_measurement", "units">>, <<"z_factor", "zFactor">>}),
       Tool("aspect", <<"in_raster">>, {}),
       Tool("hillshade", <<"in_raster", "azimuth", "altitude", "model_shadows", "z_factor">>,
            {<<"z_factor", "zFactor">>}),
       Tool("contour", <<"in_raster", "out_polyline_features", "contour_interval",
                         "base_contour">>, Same("interval") \union {<<"output", "result">>}),
       Tool("viewshed", <<"in_raster", "in_observer_features", "out_agl_raster", "z_factor">>,
            {<<"out_agl_raster", "result">>}),
       Tool("roughness", <<"in_raster">>, window \union {<<"neighborhood", "windowRadius">>}),
       Tool("tpi", <<"in_raster">>, window),
       Tool("tri", <<"in_raster">>, window) }

RasterTools ==
  LET Tool(tool, params, aliases) == Registered("spatial-analyst", tool, NoJob, params, aliases)
      Data(tool, params, aliases) == Registered("management", tool, NoJob, params, aliases)
      sampled == Same("resampling") \union {<<"output", "result">>}
  IN { Tool("reclassify", <<"in_raster", "reclass_field", "remap", "missing_values">>,
            Same("remap")),
       Tool("rastercalculator", <<"rasters", "input_names", "expression", "output_raster">>,
            Same("expression") \union {<<"output_raster", "result">>}),
       Tool("idw", <<"in_point_features", "z_field", "cell_size", "power", "search_radius">>,
            Same("radius") \union {<<"search_radius", "radius">>}),
       Tool("zonalstatisticsastable",
            <<"in_zone_data", "zone_field", "in_value_raster", "out_table", "ignore_nodata",
              "statistics_type">>, {<<"statistics_type", "statistics">>, <<"out_table", "result">>}),
       Data("projectraster", <<"in_raster", "out_raster", "out_coor_system", "resampling_type">>,
            sampled),
       Data("resample", <<"in_raster", "out_raster", "cell_size", "resampling_type">>, sampled),
       Data("clip", <<"in_raster", "rectangle", "out_raster", "in_template_dataset">>, {}),
       Data("mosaic", <<"inputs", "target">>,
            {<<"in_rasters", "sources">>, <<"mosaic_operator", "operator">>}) }

Registry == AnalysisTools \union FeatureTools \union LayerTools \union OverlayTools
              \union ShapeTools \union SmoothingTools \union SurfaceTools \union RasterTools

Raster(spec) == spec \in SurfaceTools \union RasterTools

-----------------------------------------------------------------------------
(* Parameters of ArcPy and of the processes.                               *)

FeatureName ==
  [in_features |-> "input_features", out_feature_class |-> "result", in_dataset |-> "input_features",
   out_dataset |-> "result", buffer_distance_or_field |-> "distance",
   dissolve_field |-> "dissolve_fields", out_coor_system |-> "out_crs", in_coor_system |-> "in_crs",
   out_layer |-> "layer", where_clause |-> "where", in_layer_or_view |-> "input_features",
   in_layer |-> "input_features", overlap_type |-> "relationship", inputs |-> "input_features",
   output |-> "result", target |-> "target_features", expression |-> "where",
   error_resolving_option |-> "error_option", densification_method |-> "method"]

RasterName ==
  [in_raster |-> "source", output_measurement |-> "units", z_factor |-> "zFactor",
   model_shadows |-> "modelShadows", out_polyline_features |-> "result",
   contour_interval |-> "interval", base_contour |-> "base",
   in_observer_features |-> "observerFeatures", out_agl_raster |-> "result",
   reclass_field |-> "reclassField", missing_values |-> "missingValues", rasters |-> "sources",
   input_names |-> "inputNames", output_raster |-> "result", in_point_features |-> "points",
   z_field |-> "zField", cell_size |-> "cellSize", search_radius |-> "radius",
   in_zone_data |-> "zones", zone_field |-> "zoneField", in_value_raster |-> "source",
   out_table |-> "result", ignore_nodata |-> "ignoreNoData", statistics_type |-> "statistics",
   out_raster |-> "result", out_coor_system |-> "targetSrid", resampling_type |-> "resampling",
   in_template_dataset |-> "boundary", inputs |-> "sources"]

\* A parameter without a name of its own in the process keeps the one of ArcPy.
ProcessName(spec, param) ==
  LET names == IF Raster(spec) THEN RasterName ELSE FeatureName
  IN IF param \in DOMAIN names THEN names[param] ELSE param

Outputs == {"result", "layer"}

Inputs == {"input_features", "clip_features", "erase_features", "target_features",
           "join_features", "select_features", "update_features", "near_features",
           "label_features", "source", "sources", "target", "points", "zones",
           "observerFeatures", "boundary"}

\* What a keyword of a call stands for: an alias goes before a parameter.
Named(spec, keyword) ==
  LET of == {a \in spec.aliases : a[1] = keyword}
  IN IF of # {} THEN (CHOOSE a \in of : TRUE)[2] ELSE ProcessName(spec, keyword)

-----------------------------------------------------------------------------
(* Calls: [family, tool, args, kwargs, expanded], args a sequence of       *)
(* values, kwargs a function from keywords to values, expanded the set of  *)
(* the values after **.  What is not a literal is an Expression.           *)

Expression == "expression"
Absent == "None"

\* The name of what has no name: an argument beyond the parameters, or a
\* parameter of a model that is only listed.
Extra(i) == "arg_" \o ToString(i)

Pairwise == [pairwisebuffer |-> <<"analysis", "buffer">>, pairwiseclip |-> <<"analysis", "clip">>,
             pairwiseintersect |-> <<"analysis", "intersect">>,
             pairwiseerase |-> <<"analysis", "erase">>,
             pairwisedissolve |-> <<"management", "dissolve">>]

\* _lookup_spec: the specifications of a call, at most one.
Lookup(family, tool) ==
  LET key == IF family = "analysis" /\ tool \in DOMAIN Pairwise THEN Pairwise[tool]
                                                             ELSE <<family, tool>>
  IN {s \in Registry : <<s.family, s.tool>> = key}

SpecOf(call) == CHOOSE s \in Lookup(call.family, call.tool) : TRUE

Supported(call) == Lookup(call.family, call.tool) # {}

\* The process's own names of a parameter: its aliases count.
Spellings(spec, param) ==
  {param} \union {a[1] : a \in {b \in spec.aliases : b[2] = ProcessName(spec, param)}}

\* Every spelling of a parameter is taken for it: no alias of a tool is the name of
\* another parameter of it.  TLC decides it; the provers would go through the table
\* case by case.
ASSUME RegistryIsRegular ==
  \A s \in Registry :
    /\ DOMAIN s.params = 1 .. Len(s.params) /\ Len(s.params) \in Nat
    /\ \A i \in DOMAIN s.params : \A k \in Spellings(s, s.params[i]) :
         Named(s, k) = ProcessName(s, s.params[i])

\* _call_argument: a keyword goes before a position; None is absent.
Argument(call, position, param) ==
  LET given == Spellings(SpecOf(call), param) \intersect DOMAIN call.kwargs
  IN IF given # {} THEN call.kwargs[CHOOSE k \in given : TRUE]
     ELSE IF position <= Len(call.args) THEN call.args[position] ELSE Absent

\* Only what is written as text can be recognised.
MutFansOut(call) == Argument(call, 4, "join_operation") = "JOIN_ONE_TO_MANY"

FansOut(call) ==
  \/ Argument(call, 4, "join_operation") = "JOIN_ONE_TO_MANY"
  \/ Argument(call, 5, "join_type") = "KEEP_COMMON"

\* The status of a call: what the server cannot run is for a human.
Status(call) ==
  IF ~Supported(call) THEN "unsupported"
  ELSE IF SpecOf(call).job \notin ExecutableProcesses THEN "manual-review"
  ELSE IF SpecOf(call).tool = "spatialjoin" /\ FansOut(call) THEN "manual-review"
  ELSE "translatable"

Translatable(call) == Status(call) = "translatable"

\* The name of the argument at a position; one beyond the parameters is an input
\* under a name of its own.
Slot(spec, i) == IF i <= Len(spec.params) THEN ProcessName(spec, spec.params[i]) ELSE Extra(i)

\* _translate_call: the process's name of every argument, a keyword before a
\* position.  A keyword nobody knows is an input under its own name.
Bound(call) ==
  LET spec == SpecOf(call)
      byPosition == [p \in {Slot(spec, i) : i \in DOMAIN call.args} |->
                       call.args[CHOOSE i \in DOMAIN call.args : Slot(spec, i) = p]]
      byKeyword == [p \in {Named(spec, k) : k \in DOMAIN call.kwargs} |->
                      call.kwargs[CHOOSE k \in DOMAIN call.kwargs : Named(spec, k) = p]]
  IN [p \in DOMAIN byKeyword \union DOMAIN byPosition |->
        IF p \in DOMAIN byKeyword THEN byKeyword[p] ELSE byPosition[p]]

\* Only a result is an output.
MutPayload(call) ==
  LET bound == Bound(call)
  IN [inputs  |-> [p \in DOMAIN bound \ {"result"} |-> bound[p]],
      outputs |-> [p \in DOMAIN bound \intersect {"result"} |-> bound[p]]]

Payload(call) ==
  LET bound == Bound(call)
  IN [inputs  |-> [p \in DOMAIN bound \ Outputs |-> bound[p]],
      outputs |-> [p \in DOMAIN bound \intersect Outputs |-> bound[p]]]
=============================================================================
